---- MODULE Spec2Model ----
(***************************************************************************)
(* Ledger and budgeting engine of the envelope budget backend:             *)
(* TransactionService (create / update / delete), BudgetService            *)
(* (assignMoney, moveMoney, getBudgetView and the credit-card adjustment   *)
(* subroutines) and PayeeService.findOrCreatePayeeByName.                  *)
(*                                                                         *)
(* Money is modelled as integers (whole currency units); a date is its     *)
(* month within one fixed year; a uuid is the next value of a counter.     *)
(* A handler is an operator from (store, caller, input) to                 *)
(* [status, db]: status 200 is success, anything else is the HTTP status   *)
(* of the thrown exception, and then db is the store as it was, because    *)
(* the handler body runs inside prisma.$transaction and is rolled back.    *)
(***************************************************************************)
EXTENDS Integers, Sequences, FiniteSets, TLC

VARIABLES accounts, transactions, splitTransactions, budgetEntries, payees,
          categoryGroups, paymentCategories, nextId, last, moves

vars == <<accounts, transactions, splitTransactions, budgetEntries, payees,
          categoryGroups, paymentCategories, nextId, last, moves>>

----------------------------------------------------------------------------
(* Bounds of the model *)

MaxTxns == 2
MaxAssigned == 2
MaxAccounts == 2

\* Rows created in the update specification.
MaxUpdated == 1

----------------------------------------------------------------------------
(* The fixed part of the store: users, budgets, categories, months *)

None == "none"
NoGroup == 0
OK == 200

Users == {"u1", "u2"}
Budgets == {"b1", "b2"}
Months == {1, 2}

BudgetUserId == [b \in Budgets |-> IF b = "b1" THEN "u1" ELSE "u2"]

Categories == {"groc", "fun", "pay", "pay2", "catx"}

CategoryBudgetId ==
    [c \in Categories |-> IF c = "catx" THEN "b2" ELSE "b1"]

AccountRows ==
    [chk |-> [budgetId |-> "b1", type |-> "CHECKING", onBudget |-> TRUE,
              paymentCategoryId |-> None],
     cc  |-> [budgetId |-> "b1", type |-> "CREDIT_CARD", onBudget |-> TRUE,
              paymentCategoryId |-> "pay"],
     trk |-> [budgetId |-> "b1", type |-> "INVESTMENT", onBudget |-> FALSE,
              paymentCategoryId |-> None],
     trk2 |-> [budgetId |-> "b1", type |-> "INVESTMENT", onBudget |-> FALSE,
               paymentCategoryId |-> None],
     cc0 |-> [budgetId |-> "b1", type |-> "CREDIT_CARD", onBudget |-> TRUE,
              paymentCategoryId |-> None],
     cc2 |-> [budgetId |-> "b1", type |-> "CREDIT_CARD", onBudget |-> TRUE,
              paymentCategoryId |-> "pay2"],
     ext |-> [budgetId |-> "b2", type |-> "CHECKING", onBudget |-> TRUE,
              paymentCategoryId |-> None]]

PayeeIdOf(budgetId, name) ==
    CASE budgetId = "b1" /\ name = "shop" -> "payee-b1-shop"
      [] budgetId = "b2" /\ name = "shop" -> "payee-b2-shop"
      [] OTHER -> "payee-other"

PayeeRows ==
    {[id |-> PayeeIdOf("b2", "shop"), budgetId |-> "b2", name |-> "shop"]}

----------------------------------------------------------------------------
(* Decimal helpers *)

Abs(x) == IF x < 0 THEN -x ELSE x

Min(x, y) == IF x < y THEN x ELSE y

Max(x, y) == IF x > y THEN x ELSE y

IsNegative(x) == x < 0

IsPositive(x) == x >= 0

IsZero(x) == x = 0

RECURSIVE SumSeq(_)
SumSeq(s) == IF s = << >> THEN 0 ELSE Head(s) + SumSeq(Tail(s))

RECURSIVE SumAmounts(_)
SumAmounts(S) ==
    IF S = {} THEN 0
    ELSE LET x == CHOOSE y \in S : TRUE IN x.amount + SumAmounts(S \ {x})

----------------------------------------------------------------------------
(* The store as one value *)

DB == [accounts |-> accounts, transactions |-> transactions,
       splitTransactions |-> splitTransactions,
       budgetEntries |-> budgetEntries, payees |-> payees,
       categoryGroups |-> categoryGroups,
       paymentCategories |-> paymentCategories, nextId |-> nextId]

SetDB(db) ==
    /\ accounts' = db.accounts
    /\ transactions' = db.transactions
    /\ splitTransactions' = db.splitTransactions
    /\ budgetEntries' = db.budgetEntries
    /\ payees' = db.payees
    /\ categoryGroups' = db.categoryGroups
    /\ paymentCategories' = db.paymentCategories
    /\ nextId' = db.nextId

OwnedByAnyone(budgetId, userId) == TRUE

\* budget.userId === userId
OwnedBy(budgetId, userId) == BudgetUserId[budgetId] = userId

CategoryInSomeBudget(categoryId, budgetId) == categoryId \in Categories

\* !category || category.categoryGroup.budgetId !== budgetId, negated
CategoryInBudget(categoryId, budgetId) ==
    /\ categoryId \in Categories
    /\ CategoryBudgetId[categoryId] = budgetId

FindTransaction(db, id) == {t \in db.transactions : t.id = id}

TheRow(S) == CHOOSE t \in S : TRUE

HasEntry(entries, categoryId, month) ==
    <<categoryId, month>> \in DOMAIN entries

Assigned(entries, categoryId, month) ==
    IF HasEntry(entries, categoryId, month)
    THEN entries[<<categoryId, month>>]
    ELSE 0

PutEntry(entries, categoryId, month, amount) ==
    [k \in DOMAIN entries \cup {<<categoryId, month>>} |->
        IF k = <<categoryId, month>> THEN amount ELSE entries[k]]

----------------------------------------------------------------------------
(* BudgetService: the BudgetEntry accessor and the credit-card adjustment  *)
(* subroutines.  Each returns [status, entries]; a status other than OK is *)
(* an exception that propagates to the enclosing handler.                  *)

GetOrCreateBudgetEntry(entries, budgetId, categoryId, month) ==
    IF ~CategoryInBudget(categoryId, budgetId)
    THEN [status |-> 404, entries |-> entries]
    ELSE IF HasEntry(entries, categoryId, month)
         THEN [status |-> OK, entries |-> entries]
         ELSE [status |-> OK,
               entries |-> PutEntry(entries, categoryId, month, 0)]

Increment(entries, categoryId, month, amount) ==
    [entries EXCEPT ![<<categoryId, month>>] = @ + amount]

AmountToMoveFull(amount, assignedAmount) == amount

\* Prisma.Decimal.min(amount, Prisma.Decimal.max(0, assignedAmount))
AmountToMove(amount, assignedAmount) == Min(amount, Max(0, assignedAmount))

AdjustBudgetsForCreditSpending(entries, budgetId, spendingCategoryId, paymentCategoryId, amount, month) ==
    IF IsNegative(amount) \/ IsZero(amount)
    THEN [status |-> OK, entries |-> entries]
    ELSE IF spendingCategoryId = paymentCategoryId
    THEN [status |-> OK, entries |-> entries]
    ELSE
    LET spendingEntry ==
            GetOrCreateBudgetEntry(entries, budgetId, spendingCategoryId, month)
        paymentEntry ==
            GetOrCreateBudgetEntry(spendingEntry.entries, budgetId,
                                   paymentCategoryId, month)
        amountToMove ==
            AmountToMove(amount,
                         spendingEntry.entries[<<spendingCategoryId, month>>])
        decremented ==
            Increment(paymentEntry.entries, spendingCategoryId, month, -amount)
    IN  IF spendingEntry.status # OK THEN spendingEntry
        ELSE IF paymentEntry.status # OK THEN paymentEntry
        ELSE IF amountToMove > 0
             THEN [status |-> OK,
                   entries |-> Increment(decremented, paymentCategoryId, month,
                                         amountToMove)]
             ELSE [status |-> OK, entries |-> decremented]

RevertSpendingOnlyCategory(entries, budgetId, spendingCategoryId, paymentCategoryId, amount, month) ==
    LET spendingEntry ==
            GetOrCreateBudgetEntry(entries, budgetId, spendingCategoryId, month)
    IN  IF spendingEntry.status # OK THEN spendingEntry
        ELSE [status |-> OK,
              entries |-> Increment(spendingEntry.entries, spendingCategoryId,
                                    month, amount)]

RevertBudgetAdjustmentForCreditSpending(entries, budgetId, spendingCategoryId, paymentCategoryId, amount, month) ==
    IF IsNegative(amount) \/ IsZero(amount)
    THEN [status |-> OK, entries |-> entries]
    ELSE IF spendingCategoryId = paymentCategoryId
    THEN [status |-> OK, entries |-> entries]
    ELSE
    LET spendingEntry ==
            GetOrCreateBudgetEntry(entries, budgetId, spendingCategoryId, month)
        paymentEntry ==
            GetOrCreateBudgetEntry(spendingEntry.entries, budgetId,
                                   paymentCategoryId, month)
        amountToRevert == amount
    IN  IF spendingEntry.status # OK THEN spendingEntry
        ELSE IF paymentEntry.status # OK THEN paymentEntry
        ELSE [status |-> OK,
              entries |-> Increment(
                  Increment(paymentEntry.entries, spendingCategoryId, month,
                            amountToRevert),
                  paymentCategoryId, month, -amountToRevert)]

HandleCreditCardPaymentIncrement(entries, budgetId, paymentCategoryId, amount, month) ==
    LET paymentEntry ==
            GetOrCreateBudgetEntry(entries, budgetId, paymentCategoryId, month)
    IN  IF paymentEntry.status # OK THEN paymentEntry
        ELSE [status |-> OK,
              entries |-> Increment(paymentEntry.entries, paymentCategoryId,
                                    month, amount)]

HandleCreditCardPayment(entries, budgetId, paymentCategoryId, amount, month) ==
    IF IsNegative(amount) \/ IsZero(amount)
    THEN [status |-> OK, entries |-> entries]
    ELSE
    LET paymentEntry ==
            GetOrCreateBudgetEntry(entries, budgetId, paymentCategoryId, month)
    IN  IF paymentEntry.status # OK THEN paymentEntry
        ELSE [status |-> OK,
              entries |-> Increment(paymentEntry.entries, paymentCategoryId,
                                    month, -amount)]

RevertCreditCardPayment(entries, budgetId, paymentCategoryId, amount, month) ==
    IF IsNegative(amount) \/ IsZero(amount)
    THEN [status |-> OK, entries |-> entries]
    ELSE
    LET paymentEntry ==
            GetOrCreateBudgetEntry(entries, budgetId, paymentCategoryId, month)
    IN  IF paymentEntry.status # OK THEN paymentEntry
        ELSE [status |-> OK,
              entries |-> Increment(paymentEntry.entries, paymentCategoryId,
                                    month, amount)]

HandleCreditCardRefundToCategory(entries, budgetId, spendingCategoryId, paymentCategoryId, amount, month) ==
    IF IsNegative(amount) \/ IsZero(amount)
    THEN [status |-> OK, entries |-> entries]
    ELSE IF spendingCategoryId = paymentCategoryId
    THEN [status |-> OK, entries |-> entries]
    ELSE
    LET spendingEntry ==
            GetOrCreateBudgetEntry(entries, budgetId, spendingCategoryId, month)
        paymentEntry ==
            GetOrCreateBudgetEntry(spendingEntry.entries, budgetId,
                                   paymentCategoryId, month)
    IN  IF spendingEntry.status # OK THEN spendingEntry
        ELSE IF paymentEntry.status # OK THEN paymentEntry
        ELSE [status |-> OK,
              entries |-> Increment(
                  Increment(paymentEntry.entries, spendingCategoryId, month,
                            amount),
                  paymentCategoryId, month, -amount)]

RevertCreditCardRefundToCategory(entries, budgetId, spendingCategoryId, paymentCategoryId, amount, month) ==
    IF IsNegative(amount) \/ IsZero(amount)
    THEN [status |-> OK, entries |-> entries]
    ELSE IF spendingCategoryId = paymentCategoryId
    THEN [status |-> OK, entries |-> entries]
    ELSE
    LET spendingEntry ==
            GetOrCreateBudgetEntry(entries, budgetId, spendingCategoryId, month)
        paymentEntry ==
            GetOrCreateBudgetEntry(spendingEntry.entries, budgetId,
                                   paymentCategoryId, month)
    IN  IF spendingEntry.status # OK THEN spendingEntry
        ELSE IF paymentEntry.status # OK THEN paymentEntry
        ELSE [status |-> OK,
              entries |-> Increment(
                  Increment(paymentEntry.entries, spendingCategoryId, month,
                            -amount),
                  paymentCategoryId, month, amount)]

HandleCreditCardRefundToTBBSkipped(entries, budgetId, paymentCategoryId, amount, month) ==
    [status |-> OK, entries |-> entries]

HandleCreditCardRefundToTBB(entries, budgetId, paymentCategoryId, amount, month) ==
    IF IsNegative(amount) \/ IsZero(amount)
    THEN [status |-> OK, entries |-> entries]
    ELSE
    LET paymentEntry ==
            GetOrCreateBudgetEntry(entries, budgetId, paymentCategoryId, month)
    IN  IF paymentEntry.status # OK THEN paymentEntry
        ELSE [status |-> OK,
              entries |-> Increment(paymentEntry.entries, paymentCategoryId,
                                    month, -amount)]

RevertCreditCardRefundToTBB(entries, budgetId, paymentCategoryId, amount, month) ==
    IF IsNegative(amount) \/ IsZero(amount)
    THEN [status |-> OK, entries |-> entries]
    ELSE
    LET paymentEntry ==
            GetOrCreateBudgetEntry(entries, budgetId, paymentCategoryId, month)
    IN  IF paymentEntry.status # OK THEN paymentEntry
        ELSE [status |-> OK,
              entries |-> Increment(paymentEntry.entries, paymentCategoryId,
                                    month, amount)]

----------------------------------------------------------------------------
(* PayeeService.findOrCreatePayeeByName *)

Trim(name) ==
    CASE name = " shop" -> "shop"
      [] name = " "     -> ""
      [] OTHER          -> name

Truthy(x) == x # None /\ x # ""

FindOrCreatePayeeByName(payeeRows, budgetId, payeeName) ==
    IF ~Truthy(payeeName) \/ ~Truthy(Trim(payeeName))
    THEN [status |-> 400, payees |-> payeeRows, id |-> None]
    ELSE
    LET normalizedName == Trim(payeeName)
        existing == {p \in payeeRows :
                        p.budgetId = budgetId /\ p.name = normalizedName}
    IN  IF existing # {}
        THEN [status |-> OK, payees |-> payeeRows,
              id |-> (CHOOSE p \in existing : TRUE).id]
        ELSE [status |-> OK,
              payees |-> payeeRows \cup
                  {[id |-> PayeeIdOf(budgetId, normalizedName),
                    budgetId |-> budgetId, name |-> normalizedName]},
              id |-> PayeeIdOf(budgetId, normalizedName)]

----------------------------------------------------------------------------
(* TransactionService.createTransaction *)

Fail(code, db) == [status |-> code, db |-> db, created |-> << >>]

\* Steps 2-4: destination account, transfer category rules, payee and
\* category validation.  Returns the status and the payees after step 3.
SameAccountNever(transferAccountId, accountId) == FALSE

\* transferAccountId === accountId
SameAccount(transferAccountId, accountId) == transferAccountId = accountId

ValidateCreate(db, dto, budgetId) ==
    LET sourceAccount == db.accounts[dto.accountId]
    IN
    IF dto.isTransfer
    THEN
      IF ~Truthy(dto.transferAccountId)
      THEN [status |-> 400, payees |-> db.payees]
      ELSE IF SameAccount(dto.transferAccountId, dto.accountId)
      THEN [status |-> 400, payees |-> db.payees]
      ELSE IF \/ dto.transferAccountId \notin DOMAIN db.accounts
              \/ db.accounts[dto.transferAccountId].budgetId # budgetId
      THEN [status |-> 404, payees |-> db.payees]
      ELSE
      LET sourceOnBudget == sourceAccount.onBudget
          destOnBudget == db.accounts[dto.transferAccountId].onBudget
      IN  IF sourceOnBudget /\ destOnBudget
          THEN IF Truthy(dto.categoryId)
               THEN [status |-> 400, payees |-> db.payees]
               ELSE [status |-> OK, payees |-> db.payees]
          ELSE IF sourceOnBudget /\ ~destOnBudget
          THEN IF ~Truthy(dto.categoryId)
               THEN [status |-> 400, payees |-> db.payees]
               ELSE IF ~CategoryInBudget(dto.categoryId, budgetId)
               THEN [status |-> 404, payees |-> db.payees]
               ELSE [status |-> OK, payees |-> db.payees]
          ELSE IF ~sourceOnBudget /\ destOnBudget
          THEN IF Truthy(dto.categoryId)
                  /\ ~CategoryInBudget(dto.categoryId, budgetId)
               THEN [status |-> 404, payees |-> db.payees]
               ELSE [status |-> OK, payees |-> db.payees]
          ELSE [status |-> OK, payees |-> db.payees]
    ELSE
      LET found == IF ~Truthy(dto.payeeId) /\ Truthy(dto.payeeName)
                   THEN FindOrCreatePayeeByName(db.payees, budgetId,
                                                dto.payeeName)
                   ELSE [status |-> OK, payees |-> db.payees, id |-> None]
      IN  IF found.status # OK
          THEN [status |-> found.status, payees |-> db.payees]
          ELSE IF /\ Truthy(dto.categoryId) /\ ~dto.isSplit
                  /\ ~CategoryInBudget(dto.categoryId, budgetId)
          THEN [status |-> 404, payees |-> db.payees]
          ELSE IF dto.isSplit /\ Truthy(dto.categoryId)
          THEN [status |-> 400, payees |-> db.payees]
          ELSE [status |-> OK, payees |-> found.payees]

\* new Prisma.Decimal(amount).abs().negated()
SourceAmount(amount) == -Abs(amount)

DestinationAmountSigned(amount) == amount

\* new Prisma.Decimal(amount).abs()
DestinationAmount(amount) == Abs(amount)

\* Step 5: the rows to create (transactionsToCreate), in order.
TransactionsToCreate(db, dto, budgetId, payeeId) ==
    LET sourceAccount == db.accounts[dto.accountId]
        commonData == [budgetId |-> budgetId,
                       date |-> dto.date,
                       cleared |-> IF dto.cleared = None THEN "UNCLEARED"
                                   ELSE dto.cleared,
                       isTransfer |-> dto.isTransfer,
                       transferGroupId |-> IF dto.isTransfer THEN db.nextId
                                           ELSE NoGroup,
                       isSplit |-> dto.isSplit]
        row(id, accountId, amount, payee, categoryId, transferAccountId) ==
            [id |-> id, budgetId |-> commonData.budgetId,
             date |-> commonData.date, cleared |-> commonData.cleared,
             isTransfer |-> commonData.isTransfer,
             transferGroupId |-> commonData.transferGroupId,
             isSplit |-> commonData.isSplit,
             accountId |-> accountId, amount |-> amount, payeeId |-> payee,
             categoryId |-> IF Truthy(categoryId) THEN categoryId ELSE None,
             transferAccountId |-> transferAccountId]
    IN
    IF dto.isTransfer
    THEN LET destinationAccount == db.accounts[dto.transferAccountId]
         IN <<row(db.nextId, dto.accountId, SourceAmount(dto.amount), None,
                  IF sourceAccount.onBudget /\ ~destinationAccount.onBudget
                  THEN dto.categoryId ELSE None,
                  dto.transferAccountId),
              row(db.nextId + 1, dto.transferAccountId,
                  DestinationAmount(dto.amount), None,
                  IF ~sourceAccount.onBudget /\ destinationAccount.onBudget
                  THEN dto.categoryId ELSE None,
                  dto.accountId)>>
    ELSE <<row(db.nextId, dto.accountId, dto.amount, payeeId,
               IF dto.isSplit THEN None ELSE dto.categoryId, None)>>

\* Step 6: the split children, with the status of the category and sum checks.
CreateSplits(dto, budgetId, primaryTransaction) ==
    IF dto.isSplit /\ ~dto.isTransfer /\ dto.hasSplits
       /\ Len(dto.splits) > 0
    THEN
      LET n == Len(dto.splits)
          splitTotal == SumSeq([i \in 1..n |-> dto.splits[i].amount])
          rows == {[transactionId |-> primaryTransaction.id, idx |-> i,
                    categoryId |-> dto.splits[i].categoryId,
                    amount |-> dto.splits[i].amount] : i \in 1..n}
      IN  IF \E i \in 1..n :
                 ~CategoryInBudget(dto.splits[i].categoryId, budgetId)
          THEN [status |-> 404, rows |-> {}]
          ELSE IF splitTotal # primaryTransaction.amount
          THEN [status |-> 400, rows |-> {}]
          ELSE [status |-> OK, rows |-> rows]
    ELSE IF dto.isSplit /\ ~dto.isTransfer
    THEN [status |-> 400, rows |-> {}]
    ELSE [status |-> OK, rows |-> {}]

\* Budget adjustments for a transaction on a credit-card account
\* (non-transfer spending and refunds).
CreateCardAdjustment(db, entries, budgetId, primaryTransaction) ==
    LET account == db.accounts[primaryTransaction.accountId]
        paymentCategoryId == account.paymentCategoryId
        amount == primaryTransaction.amount
        categoryId == primaryTransaction.categoryId
        month == primaryTransaction.date
    IN
    IF account.type = "CREDIT_CARD" /\ Truthy(paymentCategoryId)
    THEN
      IF ~primaryTransaction.isTransfer /\ IsNegative(amount)
         /\ Truthy(categoryId)
      THEN IF categoryId # paymentCategoryId
           THEN AdjustBudgetsForCreditSpending(entries, budgetId, categoryId,
                    paymentCategoryId, Abs(amount), month)
           ELSE [status |-> OK, entries |-> entries]
      ELSE IF ~primaryTransaction.isTransfer /\ IsPositive(amount)
      THEN IF Truthy(categoryId)
           THEN IF categoryId # paymentCategoryId
                THEN HandleCreditCardRefundToCategory(entries, budgetId,
                         categoryId, paymentCategoryId, amount, month)
                ELSE HandleCreditCardRefundToTBB(entries, budgetId,
                         paymentCategoryId, amount, month)
           ELSE HandleCreditCardRefundToTBB(entries, budgetId,
                    paymentCategoryId, amount, month)
      ELSE [status |-> OK, entries |-> entries]
    ELSE [status |-> OK, entries |-> entries]

\* Budget adjustment for a transfer to a credit card (a card payment).
CreatePaymentAdjustment(db, entries, budgetId, dto, primaryTransaction) ==
    IF primaryTransaction.isTransfer
    THEN LET sourceAccount == db.accounts[dto.accountId]
             destinationAccount == db.accounts[dto.transferAccountId]
         IN  IF /\ sourceAccount.onBudget
                /\ destinationAccount.type = "CREDIT_CARD"
                /\ Truthy(destinationAccount.paymentCategoryId)
             THEN HandleCreditCardPayment(entries, budgetId,
                      destinationAccount.paymentCategoryId, Abs(dto.amount),
                      primaryTransaction.date)
             ELSE [status |-> OK, entries |-> entries]
    ELSE [status |-> OK, entries |-> entries]

CreateTransaction(db, userId, dto) ==
    IF dto.accountId \notin DOMAIN db.accounts THEN Fail(404, db)
    ELSE IF ~OwnedBy(db.accounts[dto.accountId].budgetId, userId)
    THEN Fail(403, db)
    ELSE
    LET budgetId == db.accounts[dto.accountId].budgetId
        valid == ValidateCreate(db, dto, budgetId)
    IN
    IF valid.status # OK THEN Fail(valid.status, db)
    ELSE
    LET found == IF ~dto.isTransfer /\ ~Truthy(dto.payeeId)
                    /\ Truthy(dto.payeeName)
                 THEN FindOrCreatePayeeByName(valid.payees, budgetId,
                                              dto.payeeName)
                 ELSE [status |-> OK, payees |-> valid.payees,
                       id |-> IF Truthy(dto.payeeId) THEN dto.payeeId
                              ELSE None]
        rows == TransactionsToCreate(db, dto, budgetId, found.id)
        primaryTransaction == rows[1]
    IN
    \* foreign key Transaction.payeeId -> Payee.id
    IF \E i \in 1..Len(rows) :
          /\ rows[i].payeeId # None
          /\ ~\E p \in found.payees : p.id = rows[i].payeeId
    THEN Fail(500, db)
    ELSE
    LET splits == CreateSplits(dto, budgetId, primaryTransaction)
    IN
    IF splits.status # OK THEN Fail(splits.status, db)
    ELSE
    LET card == CreateCardAdjustment(db, db.budgetEntries, budgetId,
                                     primaryTransaction)
    IN
    IF card.status # OK THEN Fail(card.status, db)
    ELSE
    LET payment == CreatePaymentAdjustment(db, card.entries, budgetId, dto,
                                           primaryTransaction)
    IN
    IF payment.status # OK THEN Fail(payment.status, db)
    ELSE [status |-> OK,
          db |-> [db EXCEPT
                    !.transactions = @ \cup {rows[i] : i \in 1..Len(rows)},
                    !.splitTransactions = @ \cup splits.rows,
                    !.budgetEntries = payment.entries,
                    !.payees = found.payees,
                    !.nextId = @ + Len(rows)],
          created |-> rows]

----------------------------------------------------------------------------
(* TransactionService.updateTransaction *)

\* A patch is the UpdateTransactionDto: keys is the set of fields the caller
\* supplied (the others are undefined), the record fields are their values.
Has(patch, key) == key \in patch.keys

GetCcBudgetType(transaction, account) ==
    IF account.type # "CREDIT_CARD" THEN "NONE"
    ELSE IF ~Truthy(account.paymentCategoryId) THEN "NONE"
    ELSE IF /\ ~transaction.isTransfer /\ IsNegative(transaction.amount)
            /\ Truthy(transaction.categoryId)
            /\ transaction.categoryId # account.paymentCategoryId
    THEN "SPENDING"
    ELSE IF /\ ~transaction.isTransfer /\ IsPositive(transaction.amount)
            /\ Truthy(transaction.categoryId)
            /\ transaction.categoryId # account.paymentCategoryId
    THEN "REFUND_TO_CAT"
    ELSE IF /\ ~transaction.isTransfer /\ IsPositive(transaction.amount)
            /\ \/ ~Truthy(transaction.categoryId)
               \/ transaction.categoryId = account.paymentCategoryId
    THEN "REFUND_TO_TBB"
    ELSE "NONE"

\* Step 5: revert the adjustment of the transaction as it was.
RevertOldAdjustment(entries, budgetId, oldCcBudgetType, existingTransaction, existingAccount) ==
    LET oldPaymentCategoryId == existingAccount.paymentCategoryId
        oldAmount == Abs(existingTransaction.amount)
        month == existingTransaction.date
    IN
    IF oldCcBudgetType # "NONE" /\ Truthy(oldPaymentCategoryId)
    THEN CASE oldCcBudgetType = "SPENDING" ->
                RevertBudgetAdjustmentForCreditSpending(entries, budgetId,
                    existingTransaction.categoryId, oldPaymentCategoryId,
                    oldAmount, month)
           [] oldCcBudgetType = "REFUND_TO_CAT" ->
                RevertCreditCardRefundToCategory(entries, budgetId,
                    existingTransaction.categoryId, oldPaymentCategoryId,
                    oldAmount, month)
           [] oldCcBudgetType = "REFUND_TO_TBB" ->
                RevertCreditCardRefundToTBB(entries, budgetId,
                    oldPaymentCategoryId, oldAmount, month)
           [] OTHER -> [status |-> OK, entries |-> entries]
    ELSE [status |-> OK, entries |-> entries]

ApplyNewAdjustmentSkipped(entries, budgetId, newCcBudgetType, updatedTransaction, finalAccount) ==
    [status |-> OK, entries |-> entries]

\* Step 6: apply the adjustment of the transaction as it is now.
ApplyNewAdjustment(entries, budgetId, newCcBudgetType, updatedTransaction, finalAccount) ==
    LET newPaymentCategoryId == finalAccount.paymentCategoryId
        newAmount == Abs(updatedTransaction.amount)
        month == updatedTransaction.date
    IN
    IF newCcBudgetType # "NONE" /\ Truthy(newPaymentCategoryId)
    THEN CASE newCcBudgetType = "SPENDING" ->
                AdjustBudgetsForCreditSpending(entries, budgetId,
                    updatedTransaction.categoryId, newPaymentCategoryId,
                    newAmount, month)
           [] newCcBudgetType = "REFUND_TO_CAT" ->
                HandleCreditCardRefundToCategory(entries, budgetId,
                    updatedTransaction.categoryId, newPaymentCategoryId,
                    newAmount, month)
           [] newCcBudgetType = "REFUND_TO_TBB" ->
                HandleCreditCardRefundToTBB(entries, budgetId,
                    newPaymentCategoryId, newAmount, month)
           [] OTHER -> [status |-> OK, entries |-> entries]
    ELSE [status |-> OK, entries |-> entries]

\* Step 2: dataToUpdate applied to the existing row (tx.transaction.update).
ApplyPatch(existingTransaction, patch, newPayeeId) ==
    [existingTransaction EXCEPT
        !.date = IF Has(patch, "date") THEN patch.date ELSE @,
        !.amount = IF Has(patch, "amount") THEN patch.amount ELSE @,
        !.cleared = IF Has(patch, "cleared") THEN patch.cleared ELSE @,
        !.payeeId = IF Has(patch, "payeeId") \/ Has(patch, "payeeName")
                    THEN newPayeeId ELSE @,
        !.categoryId = IF ~existingTransaction.isSplit
                          /\ Has(patch, "categoryId")
                       THEN (IF Truthy(patch.categoryId) THEN patch.categoryId
                             ELSE None)
                       ELSE @,
        !.accountId = IF Has(patch, "accountId") THEN patch.accountId ELSE @]

UpdateTransaction(db, userId, transactionId, patch) ==
    IF FindTransaction(db, transactionId) = {} THEN Fail(404, db)
    ELSE
    LET existingTransaction == TheRow(FindTransaction(db, transactionId))
    IN
    IF ~OwnedBy(existingTransaction.budgetId, userId)
    THEN Fail(403, db)
    ELSE
    LET budgetId == existingTransaction.budgetId
        existingAccount == db.accounts[existingTransaction.accountId]
        oldCcBudgetType == GetCcBudgetType(existingTransaction, existingAccount)
        payeeTouched == Has(patch, "payeeId") \/ Has(patch, "payeeName")
        givenPayeeId == IF Has(patch, "payeeId") /\ Truthy(patch.payeeId)
                        THEN patch.payeeId ELSE None
        found == IF /\ payeeTouched /\ givenPayeeId = None
                    /\ Has(patch, "payeeName") /\ Truthy(patch.payeeName)
                 THEN FindOrCreatePayeeByName(db.payees, budgetId,
                                              patch.payeeName)
                 ELSE [status |-> OK, payees |-> db.payees,
                       id |-> givenPayeeId]
    IN
    IF found.status # OK THEN Fail(found.status, db)
    ELSE IF /\ ~existingTransaction.isSplit
            /\ Has(patch, "categoryId") /\ Truthy(patch.categoryId)
            /\ ~CategoryInBudget(patch.categoryId, budgetId)
    THEN Fail(404, db)
    ELSE IF /\ Has(patch, "accountId")
            /\ patch.accountId # existingTransaction.accountId
            /\ \/ patch.accountId \notin DOMAIN db.accounts
               \/ db.accounts[patch.accountId].budgetId # budgetId
    THEN Fail(403, db)
    ELSE IF Has(patch, "amount") /\ existingTransaction.isSplit
    THEN Fail(400, db)
    \* payee: { connect: { id: newPayeeId } } needs an existing payee
    ELSE IF payeeTouched /\ ~\E p \in found.payees : p.id = found.id
    THEN Fail(500, db)
    ELSE
    LET updatedTransaction == ApplyPatch(existingTransaction, patch, found.id)
        finalAccount == db.accounts[updatedTransaction.accountId]
        newCcBudgetType == GetCcBudgetType(updatedTransaction, finalAccount)
        reverted == RevertOldAdjustment(db.budgetEntries, budgetId,
                        oldCcBudgetType, existingTransaction, existingAccount)
    IN
    IF reverted.status # OK THEN Fail(reverted.status, db)
    ELSE
    LET applied == ApplyNewAdjustment(reverted.entries, budgetId,
                       newCcBudgetType, updatedTransaction, finalAccount)
    IN
    IF applied.status # OK THEN Fail(applied.status, db)
    ELSE [status |-> OK,
          db |-> [db EXCEPT
                    !.transactions =
                        (@ \ {existingTransaction}) \cup {updatedTransaction},
                    !.budgetEntries = applied.entries,
                    !.payees = found.payees],
          created |-> <<updatedTransaction>>]

----------------------------------------------------------------------------
(* TransactionService.deleteTransaction *)

\* The "Revert Budget Adjustments (BEFORE DELETE)" block.
DeleteAdjustment(db, existingTransaction, paired) ==
    LET entries == db.budgetEntries
        budgetId == existingTransaction.budgetId
        account1 == db.accounts[existingTransaction.accountId]
        amount == existingTransaction.amount
        categoryId == existingTransaction.categoryId
        month == existingTransaction.date
        unchanged == [status |-> OK, entries |-> entries]
        account2 == db.accounts[existingTransaction.transferAccountId]
    IN
    IF /\ ~existingTransaction.isTransfer /\ account1.type = "CREDIT_CARD"
       /\ IsNegative(amount) /\ Truthy(categoryId)
    THEN IF Truthy(account1.paymentCategoryId)
            /\ categoryId # account1.paymentCategoryId
         THEN RevertBudgetAdjustmentForCreditSpending(entries, budgetId,
                  categoryId, account1.paymentCategoryId, Abs(amount), month)
         ELSE unchanged
    ELSE IF /\ ~existingTransaction.isTransfer
            /\ account1.type = "CREDIT_CARD" /\ IsPositive(amount)
    THEN IF Truthy(account1.paymentCategoryId)
         THEN IF Truthy(categoryId)
              THEN IF categoryId # account1.paymentCategoryId
                   THEN RevertCreditCardRefundToCategory(entries, budgetId,
                            categoryId, account1.paymentCategoryId, amount,
                            month)
                   ELSE RevertCreditCardRefundToTBB(entries, budgetId,
                            account1.paymentCategoryId, amount, month)
              ELSE RevertCreditCardRefundToTBB(entries, budgetId,
                       account1.paymentCategoryId, amount, month)
         ELSE unchanged
    ELSE IF existingTransaction.isTransfer /\ paired # {}
    THEN LET paymentCategoryId ==
                 IF account1.type = "CREDIT_CARD" /\ account2.onBudget
                 THEN account1.paymentCategoryId
                 ELSE IF account1.onBudget /\ account2.type = "CREDIT_CARD"
                 THEN account2.paymentCategoryId
                 ELSE None
         IN  IF Truthy(paymentCategoryId)
             THEN RevertCreditCardPayment(entries, budgetId, paymentCategoryId,
                                          Abs(amount), month)
             ELSE unchanged
    ELSE unchanged

\* One run of deleteTransaction for one answer of findFirst to the sibling
\* query: paired is {} (no sibling) or the singleton of the row found.
DeleteTransactionWith(db, existingTransaction, paired) ==
    LET idsToDelete == {existingTransaction.id} \cup {t.id : t \in paired}
        reverted == DeleteAdjustment(db, existingTransaction, paired)
    IN
    IF reverted.status # OK THEN Fail(reverted.status, db)
    ELSE [status |-> OK,
          db |-> [db EXCEPT
                    !.transactions =
                        {t \in @ : t.id \notin idsToDelete},
                    !.splitTransactions =
                        {sp \in @ : sp.transactionId \notin idsToDelete},
                    !.budgetEntries = reverted.entries],
          created |-> << >>]

Siblings(db, existingTransaction) ==
    IF existingTransaction.isTransfer
       /\ existingTransaction.transferGroupId # NoGroup
    THEN {t \in db.transactions :
             /\ t.transferGroupId = existingTransaction.transferGroupId
             /\ t.id # existingTransaction.id}
    ELSE {}

DeleteTransaction(db, userId, transactionId) ==
    IF FindTransaction(db, transactionId) = {} THEN Fail(404, db)
    ELSE
    LET existingTransaction == TheRow(FindTransaction(db, transactionId))
    IN
    IF ~OwnedBy(existingTransaction.budgetId, userId)
    THEN Fail(403, db)
    ELSE
    LET siblings == Siblings(db, existingTransaction)
        paired == IF siblings = {} THEN {}
                  ELSE {CHOOSE t \in siblings : TRUE}
    IN  DeleteTransactionWith(db, existingTransaction, paired)

----------------------------------------------------------------------------
(* BudgetService.assignMoney, moveMoney, getBudgetView *)

GetBudgetById(userId, budgetId) ==
    IF budgetId \notin Budgets THEN 404
    ELSE IF ~OwnedBy(budgetId, userId) THEN 403
    ELSE OK

UpsertAssignedDelta(entries, categoryId, month, amount) ==
    PutEntry(entries, categoryId, month,
             Assigned(entries, categoryId, month) + amount)

\* prisma.budgetEntry.upsert: set assignedAmount, creating the entry if absent
UpsertAssigned(entries, categoryId, month, amount) ==
    PutEntry(entries, categoryId, month, amount)

AssignMoney(db, userId, budgetId, dto) ==
    IF IsNegative(dto.assignAmount) THEN Fail(400, db)
    ELSE IF ~CategoryInBudget(dto.categoryId, budgetId) THEN Fail(404, db)
    ELSE IF GetBudgetById(userId, budgetId) # OK
    THEN Fail(GetBudgetById(userId, budgetId), db)
    ELSE [status |-> OK,
          db |-> [db EXCEPT !.budgetEntries =
                     UpsertAssigned(@, dto.categoryId, dto.month,
                                    dto.assignAmount)],
          created |-> << >>]

InsufficientNever(fromAssigned, moveAmount) == FALSE

\* fromAssigned.lessThan(decimalMoveAmount)
Insufficient(fromAssigned, moveAmount) == fromAssigned < moveAmount

MoveMoney(db, userId, budgetId, dto) ==
    IF dto.fromCategoryId = dto.toCategoryId THEN Fail(400, db)
    ELSE IF IsNegative(dto.moveAmount) \/ IsZero(dto.moveAmount)
    THEN Fail(400, db)
    ELSE IF GetBudgetById(userId, budgetId) # OK
    THEN Fail(GetBudgetById(userId, budgetId), db)
    ELSE
    LET fromEntry == GetOrCreateBudgetEntry(db.budgetEntries, budgetId,
                         dto.fromCategoryId, dto.month)
        toEntry == GetOrCreateBudgetEntry(fromEntry.entries, budgetId,
                       dto.toCategoryId, dto.month)
        fromAssigned == fromEntry.entries[<<dto.fromCategoryId, dto.month>>]
    IN  IF fromEntry.status # OK THEN Fail(fromEntry.status, db)
        ELSE IF toEntry.status # OK THEN Fail(toEntry.status, db)
        ELSE IF Insufficient(fromAssigned, dto.moveAmount) THEN Fail(400, db)
        ELSE [status |-> OK,
              db |-> [db EXCEPT !.budgetEntries =
                         Increment(
                             Increment(toEntry.entries, dto.fromCategoryId,
                                       dto.month, -dto.moveAmount),
                             dto.toCategoryId, dto.month, dto.moveAmount)],
              created |-> << >>]

\* categoryGroups.flatMap(group => group.categories): the categories of the
\* budget in the order the view visits them.
BudgetCategories(budgetId) ==
    IF budgetId = "b1" THEN <<"groc", "fun", "pay", "pay2">>
    ELSE IF budgetId = "b2" THEN <<"catx">>
    ELSE << >>

TransactionsCurrentMonthWithTransfers(db, budgetId, month) ==
    {t \in db.transactions : t.budgetId = budgetId /\ t.date = month}

\* The transaction.findMany of the view: rows of the budget dated in the
\* month with isTransfer = false.
TransactionsCurrentMonth(db, budgetId, month) ==
    {t \in db.transactions :
        t.budgetId = budgetId /\ t.date = month /\ ~t.isTransfer}

SplitsOf(db, t) == {sp \in db.splitTransactions : sp.transactionId = t.id}

\* What one transaction adds to the activity of one category.
ActivityOf(db, t, categoryId) ==
    IF t.isSplit
    THEN SumAmounts({sp \in SplitsOf(db, t) : sp.categoryId = categoryId})
    ELSE IF t.categoryId = categoryId THEN t.amount
    ELSE 0

RECURSIVE CategoryActivity(_, _, _)
CategoryActivity(db, txs, categoryId) ==
    IF txs = {} THEN 0
    ELSE LET t == CHOOSE x \in txs : TRUE
         IN  ActivityOf(db, t, categoryId)
             + CategoryActivity(db, txs \ {t}, categoryId)

\* The BudgetViewCategoryData of one category.
CategoryData(db, budgetId, month, categoryId) ==
    LET assigned == IF HasEntry(db.budgetEntries, categoryId, month)
                    THEN db.budgetEntries[<<categoryId, month>>]
                    ELSE 0
        activity == CategoryActivity(db,
                        TransactionsCurrentMonth(db, budgetId, month),
                        categoryId)
        available == assigned + activity
    IN  [categoryId |-> categoryId, assigned |-> assigned,
         activity |-> activity, available |-> available,
         isOverspent |-> IsNegative(available)]

\* totalAssigned as the view accumulates it while it maps the categories.
RECURSIVE TotalAssigned(_, _, _)
TotalAssigned(db, cats, month) ==
    IF cats = << >> THEN 0
    ELSE (IF HasEntry(db.budgetEntries, Head(cats), month)
          THEN db.budgetEntries[<<Head(cats), month>>] ELSE 0)
         + TotalAssigned(db, Tail(cats), month)

IsClearedOnly(cleared) == cleared = "CLEARED"

\* cleared: { in: [ClearedStatus.CLEARED, ClearedStatus.RECONCILED] }
IsCleared(cleared) == cleared \in {"CLEARED", "RECONCILED"}

\* AccountService.calculateAccountBalances: _sum.amount is null, hence 0,
\* when no row matches.
CalculateAccountBalances(db, accountId) ==
    LET totalBalance ==
            SumAmounts({t \in db.transactions : t.accountId = accountId})
        clearedBalance ==
            SumAmounts({t \in db.transactions :
                           t.accountId = accountId /\ IsCleared(t.cleared)})
    IN  [balance |-> totalBalance,
         clearedBalance |-> clearedBalance,
         unclearedBalance |-> totalBalance - clearedBalance]

TotalIncomeWithSplitHeaders(db, budgetId, month) ==
    SumAmounts({t \in TransactionsCurrentMonth(db, budgetId, month) :
                   ~Truthy(t.categoryId) /\ t.amount > 0})

TotalIncome(db, budgetId, month) ==
    SumAmounts({t \in TransactionsCurrentMonth(db, budgetId, month) :
                   ~t.isSplit /\ ~Truthy(t.categoryId) /\ t.amount > 0})

ToBeBudgetedAdded(totalIncome, totalAssigned) == totalIncome + totalAssigned

\* totalIncome.minus(totalAssigned)
ToBeBudgeted(totalIncome, totalAssigned) == totalIncome - totalAssigned

GetBudgetView(db, userId, budgetId, month) ==
    IF GetBudgetById(userId, budgetId) # OK
    THEN [status |-> GetBudgetById(userId, budgetId)]
    ELSE
    LET cats == BudgetCategories(budgetId)
        totalIncome == TotalIncome(db, budgetId, month)
        totalAssigned == TotalAssigned(db, cats, month)
        categoriesData == [i \in 1..Len(cats) |->
                              CategoryData(db, budgetId, month, cats[i])]
    IN  [status |-> OK,
         month |-> month,
         toBeBudgeted |-> ToBeBudgeted(totalIncome, totalAssigned),
         totalIncome |-> totalIncome,
         totalAssigned |-> totalAssigned,
         totalActivity |->
             SumSeq([i \in 1..Len(cats) |-> categoriesData[i].activity]),
         totalAvailable |->
             SumSeq([i \in 1..Len(cats) |-> categoriesData[i].available]),
         categories |-> categoriesData]

----------------------------------------------------------------------------
(* AccountService.createAccount and updateAccount.  categoryGroups and     *)
(* paymentCategories hold the CategoryGroup and Category rows that         *)
(* createAccount writes; the uuid of a new row is the next unused name.    *)

AccountTypes == {"CHECKING", "CREDIT_CARD", "INVESTMENT"}

GetDefaultOnBudgetStatus(type) == type \in {"CHECKING", "SAVINGS", "CASH", "CREDIT_CARD", "LINE_OF_CREDIT"}

AccountIdOf(n) ==
    CASE n = 1 -> "acc1" [] n = 2 -> "acc2" [] n = 3 -> "acc3"
      [] OTHER -> "acc4"

PaymentCategoryIdOf(n) ==
    CASE n = 1 -> "pay1" [] n = 2 -> "pay2" [] n = 3 -> "pay3"
      [] OTHER -> "pay4"

CreatedAccounts(db) == Cardinality(DOMAIN db.accounts) - Cardinality(DOMAIN AccountRows)

PaymentGroupName == "Credit Card Payments"

\* The CREDIT_CARD branch of createAccount: find or create the group,
\* create the payment category, link the account to it.
LinkPaymentCategory(db, accountId, budgetId) ==
    LET paymentGroup == [budgetId |-> budgetId, name |-> PaymentGroupName]
        paymentCategory ==
            [id |-> PaymentCategoryIdOf(Cardinality(db.paymentCategories) + 1),
             budgetId |-> budgetId, categoryGroup |-> PaymentGroupName,
             name |-> accountId]
    IN  [db EXCEPT
           !.categoryGroups = @ \cup {paymentGroup},
           !.paymentCategories = @ \cup {paymentCategory},
           !.accounts = [@ EXCEPT ![accountId].paymentCategoryId =
                                      paymentCategory.id]]

\* The "Initial Balance" row of createAccount, dated now.
InitialBalanceRow(db, accountId, budgetId, initialBalance, now) ==
    [id |-> db.nextId, budgetId |-> budgetId, date |-> now,
     cleared |-> "CLEARED", isTransfer |-> FALSE,
     transferGroupId |-> NoGroup, isSplit |-> FALSE,
     accountId |-> accountId, amount |-> initialBalance, payeeId |-> None,
     categoryId |-> None, transferAccountId |-> None]

\* createDto: budgetId, type, hasOnBudget/onBudget (optional flag),
\* hasBalance/balance (optional initial balance).
CreateAccount(db, userId, createDto, now) ==
    IF GetBudgetById(userId, createDto.budgetId) # OK
    THEN Fail(GetBudgetById(userId, createDto.budgetId), db)
    ELSE
    LET budgetId == createDto.budgetId
        accountId == AccountIdOf(CreatedAccounts(db) + 1)
        isOnBudget == IF createDto.hasOnBudget THEN createDto.onBudget
                      ELSE GetDefaultOnBudgetStatus(createDto.type)
        account == [budgetId |-> budgetId, type |-> createDto.type,
                    onBudget |-> isOnBudget, paymentCategoryId |-> None]
        created == [db EXCEPT !.accounts =
                       [a \in DOMAIN @ \cup {accountId} |->
                           IF a = accountId THEN account ELSE @[a]]]
        linked == IF account.type = "CREDIT_CARD"
                  THEN LinkPaymentCategory(created, accountId, budgetId)
                  ELSE created
        funded == IF createDto.hasBalance /\ ~IsZero(createDto.balance)
                  THEN [linked EXCEPT
                          !.transactions = @ \cup
                              {InitialBalanceRow(linked, accountId, budgetId,
                                                 createDto.balance, now)},
                          !.nextId = @ + 1]
                  ELSE linked
    IN  [status |-> OK, db |-> funded, created |-> <<accountId>>]

\* updateDto: keys is the set of fields present, among name, type, onBudget.
UpdateAccount(db, userId, accountId, updateDto) ==
    IF accountId \notin DOMAIN db.accounts THEN Fail(403, db)
    ELSE IF ~OwnedBy(db.accounts[accountId].budgetId, userId)
    THEN Fail(403, db)
    ELSE IF updateDto.keys = {} THEN Fail(400, db)
    ELSE
    LET existing == db.accounts[accountId]
        typed == IF "type" \in updateDto.keys
                 THEN [existing EXCEPT
                         !.type = updateDto.type,
                         !.onBudget =
                             IF "onBudget" \notin updateDto.keys
                             THEN GetDefaultOnBudgetStatus(updateDto.type)
                             ELSE @]
                 ELSE existing
        updatedAccount == IF "onBudget" \in updateDto.keys
                          THEN [typed EXCEPT !.onBudget = updateDto.onBudget]
                          ELSE typed
    IN  [status |-> OK,
         db |-> [db EXCEPT !.accounts[accountId] = updatedAccount],
         created |-> << >>]

----------------------------------------------------------------------------
(* Requests *)

NoSplits == << >>

Split(categoryId, amount) == [categoryId |-> categoryId, amount |-> amount]

\* A plain (single, non-transfer) CreateTransactionDto.
PlainDto(accountId, date, amount, payeeName, payeeId, categoryId) ==
    [accountId |-> accountId, date |-> date, amount |-> amount,
     payeeName |-> payeeName, payeeId |-> payeeId, categoryId |-> categoryId,
     cleared |-> None, isTransfer |-> FALSE, transferAccountId |-> None,
     isSplit |-> FALSE, hasSplits |-> FALSE, splits |-> NoSplits]

TransferDto(accountId, transferAccountId, date, amount, categoryId, isSplit) ==
    [accountId |-> accountId, date |-> date, amount |-> amount,
     payeeName |-> None, payeeId |-> None, categoryId |-> categoryId,
     cleared |-> None, isTransfer |-> TRUE,
     transferAccountId |-> transferAccountId,
     isSplit |-> isSplit, hasSplits |-> FALSE, splits |-> NoSplits]

SplitDto(accountId, date, amount, categoryId, hasSplits, splits) ==
    [accountId |-> accountId, date |-> date, amount |-> amount,
     payeeName |-> "shop", payeeId |-> None, categoryId |-> categoryId,
     cleared |-> None, isTransfer |-> FALSE, transferAccountId |-> None,
     isSplit |-> TRUE, hasSplits |-> hasSplits, splits |-> splits]

Patch(keys, date, amount, cleared, payeeName, payeeId, categoryId, accountId) ==
    [keys |-> keys, date |-> date, amount |-> amount, cleared |-> cleared,
     payeeName |-> payeeName, payeeId |-> payeeId, categoryId |-> categoryId,
     accountId |-> accountId]

\* A patch that supplies one field.
PatchOf(key, value) ==
    Patch({key},
          IF key = "date" THEN value ELSE 1,
          IF key = "amount" THEN value ELSE 0,
          IF key = "cleared" THEN value ELSE None,
          IF key = "payeeName" THEN value ELSE None,
          IF key = "payeeId" THEN value ELSE None,
          IF key = "categoryId" THEN value ELSE None,
          IF key = "accountId" THEN value ELSE None)

\* Requests of the ledger specification: transfers between the kinds of
\* account, split and plain transactions, and requests that are rejected.
LedgerDtos ==
    {TransferDto("chk", "cc", 1, -1, None, FALSE),
     TransferDto("chk", "trk", 1, 2, "groc", TRUE),
     TransferDto("trk", "chk", 1, 1, None, FALSE),
     TransferDto("chk", "chk", 1, 1, None, FALSE),
     TransferDto("chk", "ext", 1, 1, None, FALSE),
     TransferDto("chk", "cc", 1, 1, "groc", FALSE),
     SplitDto("chk", 1, -2, None, TRUE,
              <<Split("groc", -1), Split("fun", -1)>>),
     SplitDto("chk", 1, -2, None, TRUE,
              <<Split("groc", -1), Split("groc", -2)>>),
     SplitDto("chk", 1, -2, None, FALSE, NoSplits),
     PlainDto("chk", 1, -1, None, None, "groc"),
     PlainDto("ext", 1, 1, None, None, None),
     PlainDto("nowhere", 1, -1, None, None, None)}

LedgerPatches ==
    {PatchOf("amount", 1), PatchOf("accountId", "trk"),
     PatchOf("categoryId", "groc"), PatchOf("categoryId", None)}

\* Requests of the budget specification: assignments and moves between the
\* categories of the budget, and income.
AssignDtos ==
    {[categoryId |-> c, month |-> 1, assignAmount |-> x] :
        c \in {"groc", "fun", "catx"}, x \in {-1, 0, 1, MaxAssigned}}

MoveDtos ==
    {[fromCategoryId |-> f, toCategoryId |-> t, month |-> 1,
      moveAmount |-> x] :
        f \in {"groc", "fun"}, t \in {"groc", "pay", "catx"}, x \in 0..2}

IncomeDtos ==
    {PlainDto("chk", 1, 2, None, None, None)}

\* Requests of the card specification: cash and card spending from one
\* category, a split, a categorised transfer, and the assignment covering
\* them.
CardAssignDtos ==
    {[categoryId |-> "groc", month |-> 1, assignAmount |-> x] :
        x \in {1, MaxAssigned}}

CardDtos ==
    {PlainDto("chk", 1, -1, None, None, "groc"),
     PlainDto("cc", 1, -1, None, None, "groc"),
     PlainDto("cc", 1, -2, "shop", None, "groc"),
     SplitDto("chk", 1, -2, None, TRUE,
              <<Split("groc", -1), Split("fun", -1)>>),
     TransferDto("chk", "trk", 1, 1, "groc", FALSE)}

\* Requests of the register specification: income in both months, a split
\* inflow, a reconciled outflow and a transfer into the checking account,
\* and patches of the cleared state and of the amount.
WithCleared(dto, cleared) == [dto EXCEPT !.cleared = cleared]

RegisterDtos ==
    {PlainDto("chk", 1, 2, None, None, None),
     WithCleared(PlainDto("chk", 2, 1, None, None, None), "CLEARED"),
     SplitDto("chk", 1, 2, None, TRUE, <<Split("groc", 1), Split("fun", 1)>>),
     WithCleared(PlainDto("chk", 1, -1, None, None, "groc"), "RECONCILED"),
     TransferDto("trk", "chk", 1, 1, None, FALSE)}

RegisterPatches ==
    {PatchOf("cleared", "RECONCILED"), PatchOf("cleared", "UNCLEARED"),
     PatchOf("amount", 1)}

\* Requests of the transfer specification: one transfer for each pairing of
\* budget, tracking and card accounts, a card outflow, card inflows with and
\* without a category, and assignments to the payment category.
TransferRuleDtos ==
    {TransferDto("chk", "cc", 1, -1, None, FALSE),
     TransferDto("chk", "cc0", 1, 1, None, FALSE),
     TransferDto("chk", "trk", 1, 1, "groc", FALSE),
     TransferDto("trk", "cc", 1, 2, None, FALSE),
     TransferDto("trk", "trk2", 1, 1, "groc", FALSE),
     TransferDto("chk", "cc", 1, 1, "groc", FALSE),
     TransferDto("chk", "chk", 1, 1, None, FALSE),
     PlainDto("cc", 1, -1, None, None, "groc"),
     PlainDto("cc", 1, 1, None, None, "groc"),
     PlainDto("cc", 1, 2, None, None, None)}

PaymentAssignDtos ==
    {[categoryId |-> "pay", month |-> 1, assignAmount |-> x] :
        x \in {0, MaxAssigned}}

----------------------------------------------------------------------------
(* The state machine *)

\* The moveMoney calls in flight, one per connection: where the call is,
\* its request, the entries as its store transaction sees them, the
\* entries it first read, whether it holds the store's write lock, and the
\* status it returned.
Procs == {1, 2}

Idle == [pc |-> "idle", dto |-> ([fromCategoryId |-> None, toCategoryId |-> None, month |-> 1, moveAmount |-> 0]), view |-> << >>, snapshot |-> << >>, locked |-> FALSE, status |-> 0]

Init ==
    /\ accounts = AccountRows
    /\ transactions = {}
    /\ splitTransactions = {}
    /\ budgetEntries = [k \in {} |-> 0]
    /\ payees = PayeeRows
    /\ categoryGroups = {}
    /\ paymentCategories = {}
    /\ nextId = 1
    /\ last = [op |-> "init", status |-> OK, args |-> << >>]
    /\ moves = [p \in Procs |-> Idle]

\* What the caller of the last request saw: the request and, when it
\* succeeded, its input and the rows it returned or removed.
Outcome(op, r, args) ==
    [op |-> op, status |-> r.status,
     args |-> IF r.status = OK THEN args ELSE << >>]

CreateTransactionCall(dtos) ==
    \E userId \in Users, dto \in dtos :
        /\ nextId + (IF dto.isTransfer THEN 2 ELSE 1) <= MaxTxns + 1
        /\ LET r == CreateTransaction(DB, userId, dto)
           IN  /\ SetDB(r.db)
               /\ UNCHANGED moves
               /\ last' = Outcome("createTransaction", r, <<dto>>)

UpdateTransactionCall(patches) ==
    \E userId \in Users, id \in 1..MaxTxns, patch \in patches :
        LET r == UpdateTransaction(DB, userId, id, patch)
        IN  /\ SetDB(r.db)
            /\ UNCHANGED moves
            /\ last' = Outcome("updateTransaction", r,
                                <<TheRow(FindTransaction(DB, id)), patch>>)

DeleteTransactionCall ==
    \E userId \in Users, id \in 1..MaxTxns :
        LET r == DeleteTransaction(DB, userId, id)
        IN  /\ SetDB(r.db)
            /\ UNCHANGED moves
            /\ last' = Outcome("deleteTransaction", r,
                                <<TheRow(FindTransaction(DB, id))>>)

AssignMoneyCall(dtos) ==
    \E userId \in Users, budgetId \in Budgets, dto \in dtos :
        LET r == AssignMoney(DB, userId, budgetId, dto)
        IN  /\ SetDB(r.db)
            /\ UNCHANGED moves
            /\ last' = Outcome("assignMoney", r, <<dto>>)

MoveMoneyCall(dtos) ==
    \E userId \in Users, budgetId \in Budgets, dto \in dtos :
        /\ Assigned(budgetEntries, dto.toCategoryId, dto.month)
              + dto.moveAmount <= MaxAssigned
        /\ LET r == MoveMoney(DB, userId, budgetId, dto)
           IN  /\ SetDB(r.db)
               /\ UNCHANGED moves
               /\ last' = Outcome("moveMoney", r, <<dto>>)

----------------------------------------------------------------------------
(* BudgetService.moveMoney, statement by statement, as two concurrent      *)
(* calls run it.  Each call has its own store transaction                  *)
(* (prisma.$transaction): it reads the entries as they were committed when *)
(* it first read, its writes stay private until it commits, and the        *)
(* store, a SQLite database, lets one transaction write at a time and      *)
(* refuses a write to a transaction whose reads are out of date.           *)

WriteAlways(p) == TRUE

\* datasource db { provider = "sqlite" }: a transaction may write when no
\* other transaction holds the write lock and nothing was committed since
\* it first read.
CanWrite(p) ==
    /\ \A q \in Procs \ {p} : ~moves[q].locked
    /\ moves[p].snapshot = budgetEntries

\* The call has returned status; a failed call's writes are rolled back.
Finished(move, status) == [move EXCEPT !.pc = "done", !.status = status, !.locked = FALSE, !.view = << >>]

\* The call up to the sufficiency check: the checks before the store
\* transaction, getBudgetById, both getOrCreateBudgetEntry calls (a
\* created entry is a write) and the comparison of fromAssigned.
MoveMoneyRead(p, dtos) ==
    \E userId \in Users, dto \in dtos :
        LET seq == MoveMoney(DB, userId, "b1", dto)
            fromEntry == GetOrCreateBudgetEntry(budgetEntries, "b1", dto.fromCategoryId, dto.month)
            toEntry == GetOrCreateBudgetEntry(fromEntry.entries, "b1", dto.toCategoryId, dto.month)
            started == [Idle EXCEPT !.dto = dto, !.snapshot = budgetEntries]
            writes == toEntry.entries # budgetEntries
            refused == writes /\ \E q \in Procs \ {p} : moves[q].locked
        IN  /\ moves[p].pc = "idle"
            /\ moves' = [moves EXCEPT ![p] =
                  IF seq.status # OK
                  THEN Finished(started, seq.status)
                  ELSE IF refused
                  THEN Finished(started, 500)
                  ELSE [pc |-> "checked", dto |-> dto, view |-> toEntry.entries, snapshot |-> budgetEntries, locked |-> writes, status |-> 0]]
            /\ UNCHANGED <<accounts, transactions, splitTransactions, budgetEntries, payees, categoryGroups, paymentCategories, nextId, last>>

\* assignedAmount: { decrement: decimalMoveAmount } on the source entry.
MoveMoneyDecrement(p) ==
    /\ moves[p].pc = "checked"
    /\ moves' = [moves EXCEPT ![p] =
          IF CanWrite(p)
          THEN [@ EXCEPT !.pc = "decremented", !.locked = TRUE,
                         !.view = Increment(@, moves[p].dto.fromCategoryId, moves[p].dto.month, -moves[p].dto.moveAmount)]
          ELSE Finished(@, 500)]
    /\ UNCHANGED <<accounts, transactions, splitTransactions, budgetEntries, payees, categoryGroups, paymentCategories, nextId, last>>

\* assignedAmount: { increment: decimalMoveAmount } on the destination
\* entry, and the commit of the store transaction.
MoveMoneyIncrement(p) ==
    /\ moves[p].pc = "decremented"
    /\ budgetEntries' = Increment(moves[p].view, moves[p].dto.toCategoryId, moves[p].dto.month, moves[p].dto.moveAmount)
    /\ moves' = [moves EXCEPT ![p] = Finished(@, OK)]
    /\ UNCHANGED <<accounts, transactions, splitTransactions, payees, categoryGroups, paymentCategories, nextId, last>>

\* The store gives up on a transaction that waits for a lock: the call
\* fails and its writes are rolled back.
MoveMoneyBusy(p) ==
    /\ moves[p].pc \in {"checked", "decremented"}
    /\ \E q \in Procs \ {p} : moves[q].pc \in {"checked", "decremented"}
    /\ moves' = [moves EXCEPT ![p] = Finished(@, 500)]
    /\ UNCHANGED <<accounts, transactions, splitTransactions, budgetEntries, payees, categoryGroups, paymentCategories, nextId, last>>

\* Requests of the concurrent specification: the assignments made before
\* the two calls start, and moves out of groceries and back.
RaceAssignDtos ==
    {[categoryId |-> "groc", month |-> 1, assignAmount |-> x] : x \in 1..MaxAssigned}
    \cup {[categoryId |-> "fun", month |-> 1, assignAmount |-> 0]}

RaceMoveDtos ==
    {[fromCategoryId |-> "groc", toCategoryId |-> t, month |-> 1, moveAmount |-> x] : t \in {"fun", "pay"}, x \in 1..MaxAssigned}
    \cup {[fromCategoryId |-> "fun", toCategoryId |-> "groc", month |-> 1, moveAmount |-> 1]}

NextRace ==
    \/ (\A p \in Procs : moves[p].pc = "idle") /\ AssignMoneyCall(RaceAssignDtos)
    \/ \E p \in Procs : MoveMoneyRead(p, RaceMoveDtos)
    \/ \E p \in Procs : MoveMoneyDecrement(p)
    \/ \E p \in Procs : MoveMoneyIncrement(p)
    \/ \E p \in Procs : MoveMoneyBusy(p)

SpecRace == Init /\ [][NextRace]_vars

Next ==
    \/ CreateTransactionCall(LedgerDtos)
    \/ UpdateTransactionCall(LedgerPatches)
    \/ DeleteTransactionCall

Spec == Init /\ [][Next]_vars

\* Requests of both users on rows of both budgets: a categorised row, a
\* row of the other budget, a split and a budget-to-tracking transfer, and
\* patches that move a row or change its category.
OwnerDtos ==
    {PlainDto("chk", 1, -1, None, None, "groc"),
     PlainDto("ext", 1, 1, None, None, None),
     SplitDto("chk", 1, -2, None, TRUE,
              <<Split("groc", -1), Split("fun", -1)>>),
     TransferDto("chk", "trk", 1, 1, "groc", FALSE)}

OwnerPatches ==
    {PatchOf("accountId", "trk"), PatchOf("accountId", "ext"),
     PatchOf("categoryId", "fun")}

NextOwner ==
    \/ CreateTransactionCall(OwnerDtos)
    \/ UpdateTransactionCall(OwnerPatches)
    \/ DeleteTransactionCall

SpecOwner == Init /\ [][NextOwner]_vars

NextBudget ==
    \/ AssignMoneyCall(AssignDtos)
    \/ MoveMoneyCall(MoveDtos)
    \/ CreateTransactionCall(IncomeDtos)

SpecBudget == Init /\ [][NextBudget]_vars

NextCard ==
    \/ AssignMoneyCall(CardAssignDtos)
    \/ CreateTransactionCall(CardDtos)
    \/ DeleteTransactionCall

SpecCard == Init /\ [][NextCard]_vars

NextTransfer ==
    \/ AssignMoneyCall(PaymentAssignDtos)
    \/ CreateTransactionCall(TransferRuleDtos)
    \/ DeleteTransactionCall

SpecTransfer == Init /\ [][NextTransfer]_vars

NextRegister ==
    \/ CreateTransactionCall(RegisterDtos)
    \/ UpdateTransactionCall(RegisterPatches)
    \/ DeleteTransactionCall

SpecRegister == Init /\ [][NextRegister]_vars

\* Requests of the update specification: card spending, card refunds with
\* and without a category, cash spending, the assignment covering them, and
\* patches of each field that decides the budget adjustment, together with
\* patches of fields that do not.
UpdateDtos ==
    {PlainDto("cc", 1, -2, None, None, "groc"),
     PlainDto("cc", 1, 1, None, None, None)}

AdjustingPatches ==
    {PatchOf("date", m) : m \in Months}
    \cup {PatchOf("amount", x) : x \in {-1, 2}}
    \cup {PatchOf("categoryId", c) : c \in {"fun", "pay", None}}
    \cup {PatchOf("accountId", a) : a \in {"chk", "cc", "cc2"}}

\* memo and approved are columns the model does not carry: a patch of one of
\* them supplies a key and changes no modelled field.
DetailPatches ==
    {PatchOf("cleared", "CLEARED"), PatchOf("memo", "note"),
     PatchOf("approved", TRUE)}

NextUpdate ==
    \/ AssignMoneyCall(CardAssignDtos)
    \/ nextId <= MaxUpdated /\ CreateTransactionCall(UpdateDtos)
    \/ (\A k \in DOMAIN budgetEntries : /\ budgetEntries[k] >= -(MaxAssigned + 1) /\ budgetEntries[k] <= MaxAssigned + 1) /\ UpdateTransactionCall(({PatchOf("date", 2), PatchOf("cleared", "CLEARED")}))

SpecUpdate == Init /\ [][NextUpdate]_vars

\* Requests of the payee specification: a payee given by name (with and
\* without surrounding blanks) in either budget, by the id of a payee of
\* the other budget, and by an id that names no payee.
PayeeDtos ==
    {PlainDto("chk", 1, -1, "shop", None, "groc"),
     PlainDto("chk", 1, -1, " shop", None, "groc"),
     PlainDto("ext", 1, 1, "shop", None, None),
     PlainDto("chk", 1, -1, None, PayeeIdOf("b2", "shop"), "groc"),
     PlainDto("chk", 1, -1, None, "nobody", "groc")}

PayeePatches ==
    {PatchOf("payeeName", "shop"), PatchOf("payeeId", PayeeIdOf("b2", "shop")),
     PatchOf("payeeId", PayeeIdOf("b1", "shop"))}

NextPayee ==
    \/ CreateTransactionCall(PayeeDtos)
    \/ UpdateTransactionCall(PayeePatches)

SpecPayee == Init /\ [][NextPayee]_vars

\* Requests of the account specification: accounts of each type in either
\* budget, with and without the onBudget flag and an initial balance, and
\* patches of name, type and onBudget.
CreateAccountDtos ==
    {[budgetId |-> b, type |-> t, hasOnBudget |-> FALSE, onBudget |-> FALSE,
      hasBalance |-> FALSE, balance |-> 0] :
        b \in Budgets, t \in AccountTypes}
    \cup {[budgetId |-> "b1", type |-> "CHECKING", hasOnBudget |-> TRUE,
           onBudget |-> FALSE, hasBalance |-> TRUE, balance |-> x] :
             x \in {0, 1}}

UpdateAccountDtos ==
    {[keys |-> {"type"}, type |-> t, onBudget |-> FALSE] : t \in AccountTypes}
    \cup {[keys |-> {"onBudget"}, type |-> "CHECKING", onBudget |-> o] :
            o \in BOOLEAN}
    \cup {[keys |-> k, type |-> "CREDIT_CARD", onBudget |-> FALSE] :
            k \in {{}, {"name"}, {"type", "onBudget"}}}

CreateAccountCall(dtos) ==
    \E userId \in Users, createDto \in dtos, now \in Months :
        /\ CreatedAccounts(DB) < MaxAccounts
        /\ nextId <= MaxTxns
        /\ LET r == CreateAccount(DB, userId, createDto, now)
           IN  /\ SetDB(r.db)
               /\ UNCHANGED moves
               /\ last' = Outcome("createAccount", r, <<createDto>>)

UpdateAccountCall(dtos) ==
    \E userId \in Users, accountId \in ({"nowhere"} \cup {AccountIdOf(n) : n \in 1..MaxAccounts}), updateDto \in dtos :
        LET r == UpdateAccount(DB, userId, accountId, updateDto)
        IN  /\ SetDB(r.db)
            /\ UNCHANGED moves
            /\ last' = Outcome("updateAccount", r, <<accountId, updateDto>>)

NextAccount ==
    \/ CreateAccountCall(CreateAccountDtos)
    \/ UpdateAccountCall(UpdateAccountDtos)

SpecAccount == Init /\ [][NextAccount]_vars

----------------------------------------------------------------------------
(* Properties of the ledger: transfers and splits *)

\* Inputs the properties quantify over (a superset of what the actions send).
AnyAccountIds == {"chk", "cc", "trk", "ext"}

AnyTransferDtos ==
    {TransferDto(a, b, 1, x, None, FALSE) :
        a \in AnyAccountIds, b \in AnyAccountIds, x \in {-2, 1}}
    \cup {TransferDto(a, b, 1, x, "groc", TRUE) :
             a \in AnyAccountIds, b \in AnyAccountIds, x \in {-2, 1}}

Owner(t) == BudgetUserId[t.budgetId]

Group(rows, t) == {s \in rows : s.transferGroupId = t.transferGroupId}

\* C1: every successful createTransaction with isTransfer = true adds exactly
\* two rows, which share a transferGroupId no earlier row has, sit on two
\* different accounts of one budget and carry -|amount| on the source and
\* +|amount| on the destination; deleteTransaction on either row of a
\* transfer pair succeeds and removes both rows and nothing else.
C1_TransferSymmetry ==
    /\ \A userId \in Users, dto \in AnyTransferDtos :
          LET r == CreateTransaction(DB, userId, dto)
              new == r.db.transactions \ transactions
          IN  r.status = OK =>
                /\ transactions \subseteq r.db.transactions
                /\ Cardinality(new) = 2
                /\ \E src \in new, dst \in new :
                      /\ src.id # dst.id
                      /\ src.isTransfer /\ dst.isTransfer
                      /\ src.transferGroupId = dst.transferGroupId
                      /\ src.transferGroupId # NoGroup
                      /\ Group(transactions, src) = {}
                      /\ src.accountId = dto.accountId
                      /\ dst.accountId = dto.transferAccountId
                      /\ src.accountId # dst.accountId
                      /\ accounts[src.accountId].budgetId = src.budgetId
                      /\ accounts[dst.accountId].budgetId = src.budgetId
                      /\ dst.budgetId = src.budgetId
                      /\ src.amount = -Abs(dto.amount)
                      /\ dst.amount = Abs(dto.amount)
                /\ \A t \in new :
                      LET del == DeleteTransaction(r.db, userId, t.id)
                      IN  /\ del.status = OK
                          /\ del.db.transactions = transactions
    /\ \A t \in transactions :
          t.isTransfer =>
            LET del == DeleteTransaction(DB, Owner(t), t.id)
            IN  /\ del.status = OK
                /\ del.db.transactions = transactions \ Group(transactions, t)

\* A transfer was created with a negative input amount and one row of the
\* pair has just been deleted: both rows are gone.
C1_Witness ==
    /\ last.op = "deleteTransaction" /\ last.status = OK
    /\ last.args[1].isTransfer
    /\ last.args[1].amount # 0
    /\ Group(transactions, last.args[1]) = {}

\* C2: every row with isTransfer = true has exactly one other row with its
\* transferGroupId, and that row is on a different account and carries the
\* negated amount.
C2_TransferSiblingInvariant ==
    \A t \in transactions :
        t.isTransfer =>
          /\ Cardinality(Group(transactions, t) \ {t}) = 1
          /\ \A s \in Group(transactions, t) \ {t} :
                s.accountId # t.accountId /\ s.amount = -t.amount

AnySplitDtos ==
    {SplitDto(a, 1, x, c, h, sp) :
        a \in {"chk", "cc"}, x \in {-2, -1}, c \in {None, "groc"},
        h \in BOOLEAN,
        sp \in {<< >>, <<Split("groc", -1)>>,
                <<Split("groc", -1), Split("fun", -1)>>}}
    \cup {d \in AnyTransferDtos : d.isSplit}

SplitsMismatch(dto) ==
    \/ ~dto.hasSplits
    \/ Len(dto.splits) = 0
    \/ SumSeq([i \in 1..Len(dto.splits) |-> dto.splits[i].amount]) # dto.amount

\* C3: createTransaction with isSplit = true whose splits are missing, empty
\* or do not sum to the header amount fails and leaves every table
\* (transactions, split rows, payees, budget entries) as it was.
C3_SplitMismatchRejected ==
    \A userId \in Users, dto \in AnySplitDtos :
        (dto.isSplit /\ SplitsMismatch(dto)) =>
          LET r == CreateTransaction(DB, userId, dto)
          IN  /\ r.status # OK
              /\ r.db.transactions = transactions
              /\ r.db.splitTransactions = splitTransactions
              /\ r.db.payees = payees
              /\ r.db.budgetEntries = budgetEntries

\* C4: every row with isSplit = true has no category and its split children
\* sum to its amount; updateTransaction supplying an amount for such a row is
\* rejected and changes nothing.
C4_SplitHeaderInvariant ==
    \A t \in transactions :
        t.isSplit =>
          /\ t.categoryId = None
          /\ SumAmounts(SplitsOf(DB, t)) = t.amount
          /\ \A x \in {-2, 1} :
                LET r == UpdateTransaction(DB, Owner(t), t.id,
                                           PatchOf("amount", x))
                IN  r.status # OK /\ r.db = DB

----------------------------------------------------------------------------
(* Properties of the budget: card spending, assignments, moves, the view *)

\* The line of one category in the month's view, as its owner reads it.
Reported(db, budgetId, month, categoryId) ==
    LET view == GetBudgetView(db, BudgetUserId[budgetId], budgetId, month)
        i == CHOOSE j \in 1..Len(view.categories) :
                 view.categories[j].categoryId = categoryId
    IN  view.categories[i]

\* Entries e1 and e2 agree (in presence and value) outside the given keys.
SameExcept(e1, e2, keys) ==
    \A k \in (DOMAIN e1 \cup DOMAIN e2) \ keys :
        k \in DOMAIN e1 /\ k \in DOMAIN e2 /\ e1[k] = e2[k]

CardSpendDtos ==
    {PlainDto("cc", m, -a, n, None, c) :
        m \in Months, a \in 1..2, n \in {None, "shop"}, c \in {"groc", "fun"}}

PaymentCategoryOf(dto) == accounts[dto.accountId].paymentCategoryId

FullyCovered(dto) ==
    Assigned(budgetEntries, dto.categoryId, dto.date) >= -dto.amount

\* C5: a non-transfer outflow -a on the credit card, categorised to C whose
\* assigned amount of the month is at least a, followed directly by its
\* deletion, leaves the assigned amounts of C and of the card's payment
\* category P as they were before the create.
C5_CardSpendRoundTrip ==
    \A dto \in CardSpendDtos :
        FullyCovered(dto) =>
          LET made == CreateTransaction(DB, "u1", dto)
              gone == DeleteTransaction(made.db, "u1", made.created[1].id)
              P == PaymentCategoryOf(dto)
          IN  /\ made.status = OK
              /\ gone.status = OK
              /\ Assigned(gone.db.budgetEntries, dto.categoryId, dto.date)
                   = Assigned(budgetEntries, dto.categoryId, dto.date)
              /\ Assigned(gone.db.budgetEntries, P, dto.date)
                   = Assigned(budgetEntries, P, dto.date)
              /\ gone.db.transactions = transactions

\* A covered card outflow categorised to groc, the newest row, has just been
\* deleted, and the entries of groc and of the payment category exist.
C5_Witness ==
    /\ last.op = "deleteTransaction" /\ last.status = OK
    /\ last.args[1].accountId = "cc"
    /\ ~last.args[1].isTransfer
    /\ last.args[1].amount < 0
    /\ last.args[1].categoryId = "groc"
    /\ last.args[1].id = nextId - 1
    /\ HasEntry(budgetEntries, "groc", 1)
    /\ HasEntry(budgetEntries, "pay", 1)
    /\ Assigned(budgetEntries, "groc", 1) >= -last.args[1].amount
    /\ Assigned(budgetEntries, "pay", 1) = 0

\* C6: a fully covered card outflow of a categorised to C lowers the available
\* amount the view reports for C by exactly a and raises the assigned amount
\* of the payment category P by exactly a; deleting it restores both.
C6_CardSpendAvailable ==
    \A dto \in CardSpendDtos :
        FullyCovered(dto) =>
          LET made == CreateTransaction(DB, "u1", dto)
              gone == DeleteTransaction(made.db, "u1", made.created[1].id)
              P == PaymentCategoryOf(dto)
              before == Reported(DB, "b1", dto.date, dto.categoryId)
              after == Reported(made.db, "b1", dto.date, dto.categoryId)
              restored == Reported(gone.db, "b1", dto.date, dto.categoryId)
          IN  /\ made.status = OK
              /\ after.available = before.available + dto.amount
              /\ Assigned(made.db.budgetEntries, P, dto.date)
                   = Assigned(budgetEntries, P, dto.date) - dto.amount
              /\ gone.status = OK
              /\ restored.available = before.available
              /\ Assigned(gone.db.budgetEntries, P, dto.date)
                   = Assigned(budgetEntries, P, dto.date)

AnyMoveDtos ==
    {[fromCategoryId |-> f, toCategoryId |-> t, month |-> 1,
      moveAmount |-> x] :
        f \in {"groc", "fun", "catx"}, t \in {"groc", "pay", "catx"},
        x \in {-1, 0, 1, 2, MaxAssigned + 1}}

MoveAllowed(dto) ==
    /\ dto.fromCategoryId # dto.toCategoryId
    /\ dto.moveAmount > 0
    /\ Assigned(budgetEntries, dto.fromCategoryId, dto.month)
         >= dto.moveAmount

\* C7: moveMoney succeeds only when from # to, amount > 0 and from's assigned
\* amount of the month is at least amount; it then takes amount from from's
\* entry, adds it to to's entry and changes no other entry, so totalAssigned
\* and toBeBudgeted of the month stay as they were; in every other case it
\* fails and leaves the budget entries exactly as before.
C7_MoveMoney ==
    \A userId \in Users, budgetId \in Budgets, dto \in AnyMoveDtos :
        LET r == MoveMoney(DB, userId, budgetId, dto)
            from == dto.fromCategoryId
            to == dto.toCategoryId
            m == dto.month
        IN  /\ r.status = OK =>
                /\ MoveAllowed(dto)
                /\ Assigned(r.db.budgetEntries, from, m)
                     = Assigned(budgetEntries, from, m) - dto.moveAmount
                /\ Assigned(r.db.budgetEntries, to, m)
                     = Assigned(budgetEntries, to, m) + dto.moveAmount
                /\ SameExcept(r.db.budgetEntries, budgetEntries,
                              {<<from, m>>, <<to, m>>})
                /\ LET before == GetBudgetView(DB, userId, budgetId, m)
                       after == GetBudgetView(r.db, userId, budgetId, m)
                   IN  /\ after.totalAssigned = before.totalAssigned
                       /\ after.toBeBudgeted = before.toBeBudgeted
            /\ ~MoveAllowed(dto) => r.status # OK
            /\ r.status # OK => r.db = DB

\* A move has just emptied the source category into the payment category.
C7_Witness ==
    /\ last.op = "moveMoney" /\ last.status = OK
    /\ last.args[1].moveAmount = 2
    /\ last.args[1].toCategoryId = "pay"
    /\ Assigned(budgetEntries, last.args[1].fromCategoryId, 1) = 0
    /\ Assigned(budgetEntries, "pay", 1) = 2

AnyAssignDtos ==
    {[categoryId |-> c, month |-> m, assignAmount |-> x] :
        c \in {"groc", "pay", "catx"}, m \in Months, x \in {-1, 0, 2}}

\* C8: assignMoney with amount >= 0 on a category of the budget sets the
\* entry of (category, month) to exactly amount whatever it held before,
\* creating it if absent, changes no other entry, and repeating the call
\* changes nothing; with amount < 0 or a category outside the budget it fails
\* and changes no entry.
C8_AssignMoney ==
    \A budgetId \in Budgets, dto \in AnyAssignDtos :
        LET userId == BudgetUserId[budgetId]
            r == AssignMoney(DB, userId, budgetId, dto)
            key == <<dto.categoryId, dto.month>>
        IN  IF dto.assignAmount >= 0
               /\ CategoryInBudget(dto.categoryId, budgetId)
            THEN /\ r.status = OK
                 /\ HasEntry(r.db.budgetEntries, dto.categoryId, dto.month)
                 /\ r.db.budgetEntries[key] = dto.assignAmount
                 /\ SameExcept(r.db.budgetEntries, budgetEntries, {key})
                 /\ AssignMoney(r.db, userId, budgetId, dto).status = OK
                 /\ AssignMoney(r.db, userId, budgetId, dto).db = r.db
            ELSE /\ r.status # OK
                 /\ r.db.budgetEntries = budgetEntries

\* An assignment has just been made and a second entry of the month kept a
\* different value.
C8_Witness ==
    /\ last.op = "assignMoney" /\ last.status = OK
    /\ last.args[1].assignAmount = 1
    /\ budgetEntries[<<last.args[1].categoryId, 1>>] = 1
    /\ \E c \in Categories :
          /\ c # last.args[1].categoryId
          /\ HasEntry(budgetEntries, c, 1)
          /\ budgetEntries[<<c, 1>>] = 2

CashSpendDtos ==
    {PlainDto(a, m, -x, None, None, c) :
        a \in {"chk", "trk"}, m \in Months, x \in {2}, c \in {"groc", "fun"}}

----------------------------------------------------------------------------
(* Properties of the register: income, cleared states, balances *)

Uncategorised(budgetId, month) ==
    {t \in transactions :
        /\ t.budgetId = budgetId /\ t.date = month
        /\ ~t.isTransfer /\ t.categoryId = None /\ t.amount > 0}

\* C11 as stated: for every month the view's totalIncome is the sum of the
\* amounts of the budget's transactions of the month that are not transfers,
\* carry no category and have a positive amount.
C11_IncomeAllUncategorised ==
    \A budgetId \in Budgets, month \in Months :
        GetBudgetView(DB, BudgetUserId[budgetId], budgetId, month).totalIncome
          = SumAmounts(Uncategorised(budgetId, month))

\* C11 amended: for every month the view's totalIncome is the sum of the
\* amounts of the budget's transactions of the month that are not transfers,
\* are not split headers, carry no category and have a positive amount.
C11_IncomeNonSplit ==
    \A budgetId \in Budgets, month \in Months :
        GetBudgetView(DB, BudgetUserId[budgetId], budgetId, month).totalIncome
          = SumAmounts({t \in Uncategorised(budgetId, month) : ~t.isSplit})

\* Month 1 holds an uncategorised inflow and a split inflow, and the view
\* reports the plain inflow alone as income.
C11_Witness ==
    /\ \E t \in Uncategorised("b1", 1) : t.isSplit
    /\ \E t \in Uncategorised("b1", 1) : ~t.isSplit
    /\ GetBudgetView(DB, "u1", "b1", 1).totalIncome = 2

----------------------------------------------------------------------------
(* Properties of transfers: category rule and payment-category adjustment *)

BudgetOneAccountIds == {"chk", "cc", "cc0", "trk", "trk2"}

RuleTransferDtos ==
    {TransferDto(a, b, 1, x, c, FALSE) :
        a \in BudgetOneAccountIds, b \in BudgetOneAccountIds,
        x \in {-1, 2}, c \in {None, "groc"}}

\* What the category rule says of a transfer request between two accounts of
\* the budget: "reject", "accept", or "free" where the rule says nothing.
RuleOf(dto) ==
    LET src == accounts[dto.accountId]
        dst == accounts[dto.transferAccountId]
        has == dto.categoryId # None
    IN  IF dto.accountId = dto.transferAccountId THEN "reject"
        ELSE IF src.onBudget /\ dst.onBudget
        THEN (IF has THEN "reject" ELSE "free")
        ELSE IF src.onBudget /\ ~dst.onBudget
        THEN (IF has THEN "free" ELSE "reject")
        ELSE IF ~src.onBudget /\ dst.onBudget THEN "accept"
        ELSE (IF has THEN "reject" ELSE "free")

\* C12 as stated: createTransaction with isTransfer = true rejects budget-to-budget
\* with a category, budget-to-tracking without one, tracking-to-tracking
\* with a category and a transfer onto the source account; it accepts
\* tracking-to-budget with or without a category; every rejection leaves
\* the store as it was.
C12_TransferCategoryRule ==
    \A dto \in RuleTransferDtos :
        LET r == CreateTransaction(DB, "u1", dto)
        IN  /\ RuleOf(dto) = "reject" => r.status # OK
            /\ RuleOf(dto) = "accept" => r.status = OK
            /\ r.status # OK => r.db = DB

\* The rule as the handler applies it: tracking-to-tracking is accepted
\* with or without a category.
AppliedRuleOf(dto) ==
    IF /\ dto.accountId # dto.transferAccountId
       /\ ~accounts[dto.accountId].onBudget
       /\ ~accounts[dto.transferAccountId].onBudget
    THEN "accept"
    ELSE RuleOf(dto)

\* C12 amended: createTransaction with isTransfer = true rejects
\* budget-to-budget with a category, budget-to-tracking without one and a
\* transfer onto the source account; it accepts tracking-to-budget and
\* tracking-to-tracking with or without a category, and a category given
\* for tracking-to-tracking is stored on neither row; every rejection
\* leaves the store as it was.
C12_TransferCategoryRuleApplied ==
    \A dto \in RuleTransferDtos :
        LET r == CreateTransaction(DB, "u1", dto)
            src == accounts[dto.accountId]
            dst == accounts[dto.transferAccountId]
        IN  /\ AppliedRuleOf(dto) = "reject" => r.status # OK
            /\ AppliedRuleOf(dto) = "accept" => r.status = OK
            /\ r.status # OK => r.db = DB
            /\ (r.status = OK /\ ~src.onBudget /\ ~dst.onBudget) =>
                  \A t \in r.db.transactions \ transactions :
                      t.categoryId = None

\* A tracking-to-tracking transfer requested with a category has just been
\* accepted, and neither of its rows carries the category.
C12_Witness ==
    /\ last.op = "createTransaction" /\ last.status = OK
    /\ last.args[1].isTransfer
    /\ last.args[1].accountId = "trk"
    /\ last.args[1].transferAccountId = "trk2"
    /\ last.args[1].categoryId = "groc"
    /\ \E t \in transactions : t.accountId = "trk2" /\ t.categoryId = None
    /\ \E t \in transactions : t.accountId = "trk" /\ t.categoryId = None

CardInflowDtos ==
    {PlainDto("cc", m, x, None, None, c) :
        m \in Months, x \in 1..2, c \in {None, "groc", "fun", "pay"}}

\* C14: a non-transfer inflow r > 0 on the credit card with payment category
\* P adds r to the entry of its category C and takes r from P's entry when
\* C # P, and only takes r from P's entry when it has no category or its
\* category is P; no other entry changes.
C14_CardInflowAdjustment ==
    \A dto \in CardInflowDtos :
        LET res == CreateTransaction(DB, "u1", dto)
            C == dto.categoryId
            P == PaymentCategoryOf(dto)
            m == dto.date
        IN  /\ res.status = OK
            /\ Assigned(res.db.budgetEntries, P, m)
                 = Assigned(budgetEntries, P, m) - dto.amount
            /\ IF C # None /\ C # P
               THEN /\ Assigned(res.db.budgetEntries, C, m)
                         = Assigned(budgetEntries, C, m) + dto.amount
                    /\ SameExcept(res.db.budgetEntries, budgetEntries,
                                  {<<C, m>>, <<P, m>>})
               ELSE SameExcept(res.db.budgetEntries, budgetEntries,
                               {<<P, m>>})

\* A card inflow of 2 without a category has just been posted: only the
\* payment category has an entry, and it went down by 2.
C14_Witness ==
    /\ last.op = "createTransaction" /\ last.status = OK
    /\ last.args[1].accountId = "cc"
    /\ ~last.args[1].isTransfer
    /\ last.args[1].amount = 2
    /\ last.args[1].categoryId = None
    /\ DOMAIN budgetEntries = {<<"pay", 1>>}
    /\ budgetEntries[<<"pay", 1>>] \in {-2, MaxAssigned - 2}

PaysCard(dto) ==
    /\ accounts[dto.accountId].onBudget
    /\ accounts[dto.transferAccountId].type = "CREDIT_CARD"
    /\ accounts[dto.transferAccountId].paymentCategoryId # None

\* C15: a transfer takes its absolute amount from the entry of the
\* destination card's payment category exactly when the source account is
\* on-budget and the destination is a credit card with a payment category;
\* every other transfer changes no budget entry.
C15_CardPaymentAdjustment ==
    \A dto \in RuleTransferDtos :
        LET r == CreateTransaction(DB, "u1", dto)
            P == accounts[dto.transferAccountId].paymentCategoryId
            m == dto.date
        IN  r.status = OK =>
              IF PaysCard(dto)
              THEN /\ Assigned(r.db.budgetEntries, P, m)
                        = Assigned(budgetEntries, P, m) - Abs(dto.amount)
                   /\ SameExcept(r.db.budgetEntries, budgetEntries,
                                 {<<P, m>>})
              ELSE r.db.budgetEntries = budgetEntries

\* A payment of 1 from the checking account to the card has just been
\* transferred and the payment category, assigned MaxAssigned before, lost 1.
C15_Witness ==
    /\ last.op = "createTransaction" /\ last.status = OK
    /\ last.args[1].isTransfer
    /\ last.args[1].accountId = "chk"
    /\ last.args[1].transferAccountId = "cc"
    /\ Assigned(budgetEntries, "pay", 1) = MaxAssigned - 1

----------------------------------------------------------------------------
(* Properties of authorisation and of references between rows *)

AllCategoryIds == {None, "groc", "catx", "nocat"}

AuthCreateDtos ==
    {PlainDto(a, 1, -1, "shop", None, c) :
        a \in {"chk", "ext", "nowhere"}, c \in AllCategoryIds}
    \cup {SplitDto(a, 1, -2, None, TRUE, <<Split(c, -1), Split("groc", -1)>>) :
            a \in {"chk", "ext"}, c \in {"groc", "catx"}}
    \cup {TransferDto(a, b, 1, 1, c, FALSE) :
            a \in {"chk", "trk", "ext"}, b \in {"cc", "trk2", "ext", "nowhere"},
            c \in AllCategoryIds}

AuthPatches ==
    {PatchOf("categoryId", c) : c \in AllCategoryIds}
    \cup {PatchOf("accountId", a) : a \in {"chk", "trk", "ext", "nowhere"}}
    \cup {PatchOf("cleared", "CLEARED")}

AuthAssignDtos ==
    {[categoryId |-> c, month |-> 1, assignAmount |-> 1] :
        c \in {"groc", "catx", "nocat"}}

AuthMoveDtos ==
    {[fromCategoryId |-> f, toCategoryId |-> t, month |-> 1,
      moveAmount |-> 1] :
        f \in {"groc", "catx", "nocat"}, t \in {"fun", "catx"}}

\* The account, or the category, exists and its budget belongs to the user.
AccountOf(userId, accountId) ==
    /\ accountId \in DOMAIN accounts
    /\ BudgetUserId[accounts[accountId].budgetId] = userId

CategoryOf(userId, categoryId) ==
    /\ categoryId \in Categories
    /\ BudgetUserId[CategoryBudgetId[categoryId]] = userId

SplitCategoriesOf(userId, dto) ==
    \A i \in 1..Len(dto.splits) : CategoryOf(userId, dto.splits[i].categoryId)

\* The handler reads the category of the request: always for a non-transfer
\* request, and for a transfer between a budget and a tracking account.
CategoryUsedByCreate(dto) ==
    IF dto.isTransfer
    THEN /\ dto.accountId \in DOMAIN accounts
         /\ dto.transferAccountId \in DOMAIN accounts
         /\ accounts[dto.accountId].onBudget
              # accounts[dto.transferAccountId].onBudget
    ELSE TRUE

Rejected(r) == r.status # OK /\ r.db = DB

ReferencesInBudget(db) ==
    /\ \A t \in db.transactions :
          /\ t.budgetId = db.accounts[t.accountId].budgetId
          /\ (~t.isTransfer /\ ~t.isSplit /\ t.categoryId # None) =>
                /\ t.categoryId \in Categories
                /\ CategoryBudgetId[t.categoryId] =
                      db.accounts[t.accountId].budgetId
    /\ \A sp \in db.splitTransactions :
          \E t \in db.transactions :
              /\ t.id = sp.transactionId
              /\ sp.categoryId \in Categories
              /\ CategoryBudgetId[sp.categoryId] =
                    db.accounts[t.accountId].budgetId

\* C17: in every state reached by createTransaction, updateTransaction
\* (patches of accountId and categoryId included) and deleteTransaction,
\* every category on a non-transfer, non-split row or on a split child
\* belongs to the budget of the row's account, and the row's budgetId is
\* its account's budgetId; no single request leads out of such a state.
C17_ReferencesInBudget ==
    /\ ReferencesInBudget(DB)
    /\ \A userId \in Users :
          /\ \A dto \in AuthCreateDtos :
                ReferencesInBudget(CreateTransaction(DB, userId, dto).db)
          /\ \A id \in 1..MaxTxns, patch \in AuthPatches :
                ReferencesInBudget(UpdateTransaction(DB, userId, id, patch).db)
          /\ \A id \in 1..MaxTxns :
                ReferencesInBudget(DeleteTransaction(DB, userId, id).db)

\* A categorised row has just been moved to another account of its budget
\* by a patch of accountId.
C17_Witness ==
    /\ last.op = "updateTransaction" /\ last.status = OK
    /\ Has(last.args[2], "accountId")
    /\ last.args[1].accountId = "chk"
    /\ last.args[1].categoryId = "groc"
    /\ \E t \in transactions :
          /\ t.id = last.args[1].id
          /\ t.accountId = "trk"
          /\ t.categoryId = "groc"
          /\ t.budgetId = "b1"

\* C18: once a row's cleared state is RECONCILED, every updateTransaction
\* on it is rejected and leaves the store unchanged; in particular the
\* cleared state never goes back to CLEARED or UNCLEARED.
C18_ReconciledLocked ==
    \A t \in transactions :
        t.cleared = "RECONCILED" =>
            \A userId \in Users, patch \in RegisterPatches :
                LET r == UpdateTransaction(DB, userId, t.id, patch)
                IN  r.status # OK /\ r.db = DB

----------------------------------------------------------------------------
(* Properties of account balances *)

\* The amount row id contributes to account accountId when its cleared
\* state is one of states, and 0 when there is no such row.
AmountOn(id, accountId, states) ==
    LET rows == {t \in transactions :
                    t.id = id /\ t.accountId = accountId /\ t.cleared \in states}
    IN  IF rows = {} THEN 0 ELSE TheRow(rows).amount

RECURSIVE SumOn(_, _, _)
SumOn(n, accountId, states) ==
    IF n = 0 THEN 0
    ELSE AmountOn(n, accountId, states) + SumOn(n - 1, accountId, states)

ClearedStates == {"UNCLEARED", "CLEARED", "RECONCILED"}

\* C19: for every account, in every state reached by creations, updates
\* and deletions, calculateAccountBalances returns the sum of all amounts
\* on the account as balance, the sum over its CLEARED or RECONCILED rows
\* as clearedBalance, and balance minus clearedBalance, which is the sum
\* over its UNCLEARED rows, as unclearedBalance; all three are 0 for an
\* account without rows.
C19_AccountBalances ==
    /\ \A t \in transactions : t.cleared \in ClearedStates
    /\ \A accountId \in DOMAIN accounts :
          LET b == CalculateAccountBalances(DB, accountId)
              n == nextId - 1
          IN  /\ b.balance = SumOn(n, accountId, ClearedStates)
              /\ b.clearedBalance =
                    SumOn(n, accountId, {"CLEARED", "RECONCILED"})
              /\ b.unclearedBalance = b.balance - b.clearedBalance
              /\ b.unclearedBalance = SumOn(n, accountId, {"UNCLEARED"})
              /\ (\A t \in transactions : t.accountId # accountId) =>
                    /\ b.balance = 0
                    /\ b.clearedBalance = 0
                    /\ b.unclearedBalance = 0

\* After an update, account chk holds an uncleared and a reconciled row and
\* its three balances differ from 0 and from each other.
C19_Witness ==
    /\ last.op = "updateTransaction" /\ last.status = OK
    /\ \E t \in transactions : t.accountId = "chk" /\ t.cleared = "UNCLEARED"
    /\ \E t \in transactions : t.accountId = "chk" /\ t.cleared = "RECONCILED"
    /\ LET b == CalculateAccountBalances(DB, "chk")
       IN  /\ b.clearedBalance # 0
           /\ b.unclearedBalance # 0
           /\ b.balance # b.clearedBalance
           /\ b.balance # 0

----------------------------------------------------------------------------
(* Properties of covering overspending *)

\* The request assigning the overspent amount of the line to its category.
CoverDto(line, month) ==
    [categoryId |-> line.categoryId, month |-> month,
     assignAmount |-> 0 - line.available]

\* C20 as stated: for every category whose available in a month is -x
\* with x > 0, whatever its assigned amount and activity, assignMoney of x
\* to it for that month makes the view report available = 0 for it.
C20_AssignCoversOverspending ==
    \A month \in Months, i \in 1..Len(BudgetCategories("b1")) :
        LET line == GetBudgetView(DB, "u1", "b1", month).categories[i]
            r == AssignMoney(DB, "u1", "b1", CoverDto(line, month))
        IN  line.available < 0 =>
                /\ r.status = OK
                /\ Reported(r.db, "b1", month, line.categoryId).available = 0

\* C20, as the code has it: assignMoney replaces the assigned amount, so
\* for every category whose available in a month is -x with x > 0,
\* assignMoney of x makes the view report assigned = x, the activity it
\* had, and available = x + activity, which is minus the amount assigned
\* before; available is 0 when nothing (no entry, or 0) was assigned to the
\* category for the month.
C20_AssignCoversUnassigned ==
    \A month \in Months, i \in 1..Len(BudgetCategories("b1")) :
        LET line == GetBudgetView(DB, "u1", "b1", month).categories[i]
            r == AssignMoney(DB, "u1", "b1", CoverDto(line, month))
            after == Reported(r.db, "b1", month, line.categoryId)
        IN  line.available < 0 =>
                /\ r.status = OK
                /\ after.assigned = 0 - line.available
                /\ after.activity = line.activity
                /\ after.available = 0 - line.assigned
                /\ line.assigned = 0 => after.available = 0

\* Overspending of groceries has just been covered: the assignment equals
\* the spending of the month and the view reports available 0.
C20_Witness ==
    /\ last.op = "assignMoney" /\ last.status = OK
    /\ last.args[1].categoryId = "groc"
    /\ LET line == Reported(DB, "b1", 1, "groc")
       IN  /\ line.activity < 0
           /\ line.assigned = 0 - line.activity
           /\ line.assigned = last.args[1].assignAmount
           /\ line.available = 0

----------------------------------------------------------------------------
(* Properties of accounts *)

\* C21: in every state reached by createAccount and updateAccount (type
\* changes included) an account has a linked payment category exactly
\* when its type is CREDIT_CARD, and no payment category is linked to two
\* accounts.
C21_PaymentCategoryLink ==
    \A a \in DOMAIN accounts \ DOMAIN AccountRows :
        /\ (accounts[a].paymentCategoryId # None) <=>
               (accounts[a].type = "CREDIT_CARD")
        /\ \A b \in DOMAIN accounts :
               (b # a /\ accounts[a].paymentCategoryId # None) =>
                   accounts[b].paymentCategoryId #
                       accounts[a].paymentCategoryId

----------------------------------------------------------------------------
(* Properties of tracking accounts and card payments: what the view keeps *)

\* The values of the view that the frame properties compare, for each month.
ViewValues(db, budgetId) ==
    [month \in Months |->
        LET view == GetBudgetView(db, BudgetUserId[budgetId], budgetId, month)
        IN  [totalIncome |-> view.totalIncome,
             toBeBudgeted |-> view.toBeBudgeted,
             lines |-> [i \in 1..Len(view.categories) |->
                           [assigned |-> view.categories[i].assigned,
                            activity |-> view.categories[i].activity,
                            available |-> view.categories[i].available]]]]

\* The request changed no BudgetEntry and no value of the view of b1.
Unbudgeted(r) ==
    /\ r.db.budgetEntries = budgetEntries
    /\ ViewValues(r.db, "b1") = ViewValues(DB, "b1")

\* C22: creating, updating or deleting a non-transfer transaction on an
\* account with onBudget = false changes no BudgetEntry and no value of
\* getBudgetView for any month (totalIncome, every category's activity and
\* available, toBeBudgeted).
C22_TrackingAccountFrame ==
    /\ \A dto \in ({PlainDto(a, m, x, None, None, c) : a \in {"trk", "trk2"}, m \in Months, x \in {-1, 2}, c \in {None, "groc"}}) :
          LET r == CreateTransaction(DB, "u1", dto)
          IN  r.status = OK /\ Unbudgeted(r)
    /\ \A t \in transactions :
          (t.budgetId = "b1" /\ ~t.isTransfer /\ ~accounts[t.accountId].onBudget) =>
              /\ Unbudgeted(DeleteTransaction(DB, "u1", t.id))
              /\ \A patch \in {PatchOf("amount", 1), PatchOf("date", 2)} :
                    Unbudgeted(UpdateTransaction(DB, "u1", t.id, patch))

\* C23: a payment transfer from an on-budget cash account to a credit
\* card reduces only the card's payment category: the toBeBudgeted of
\* every month and the assigned, activity and available of every
\* spending category are the same before and after the transfer.
C23_PaymentTransferFrame ==
    \A dto \in ({TransferDto("chk", "cc", m, x, None, FALSE) : m \in Months, x \in {-1, 2}}) :
        LET r == CreateTransaction(DB, "u1", dto)
            before == ViewValues(DB, "b1")
            after == ViewValues(r.db, "b1")
            cats == BudgetCategories("b1")
        IN  /\ r.status = OK
            /\ SameExcept(r.db.budgetEntries, budgetEntries,
                          {<<"pay", dto.date>>})
            /\ \A month \in Months :
                  /\ after[month].toBeBudgeted = before[month].toBeBudgeted
                  /\ \A i \in 1..Len(cats) :
                        cats[i] # "pay" =>
                            after[month].lines[i] = before[month].lines[i]

----------------------------------------------------------------------------
(* Properties of concurrent moves *)

\* Both calls drain the same source and month, each asked for no more than
\* the source held when the first of them read it, and together for more.
Overdraw(p, q) ==
    LET s == Max(Assigned(moves[p].snapshot, moves[p].dto.fromCategoryId, 1),
                 Assigned(moves[q].snapshot, moves[q].dto.fromCategoryId, 1))
    IN  /\ moves[p].dto.fromCategoryId = moves[q].dto.fromCategoryId
        /\ moves[p].dto.month = moves[q].dto.month
        /\ moves[p].dto.moveAmount <= s
        /\ moves[q].dto.moveAmount <= s
        /\ moves[p].dto.moveAmount + moves[q].dto.moveAmount > s

----------------------------------------------------------------------------
(* Properties of deleting and updating: what is reverted *)

SameAssigned(e1, e2) ==
    \A c \in Categories, m \in Months : Assigned(e1, c, m) = Assigned(e2, c, m)

\* C25: for every transfer from an on-budget account of any type (a
\* credit card included) to a credit card with a payment category,
\* deleteTransaction of either row of the pair adds the transfer amount
\* back to the destination card's payment-category entry and changes no
\* other entry, so every entry is as it was before the transfer.
C25_TransferDeleteReverts ==
    \A dto \in ({TransferDto(a, "cc", m, x, None, FALSE) : a \in {"chk", "cc2", "cc0"}, m \in Months, x \in {-1, 2}}) :
        LET r == CreateTransaction(DB, "u1", dto)
            P == accounts[dto.transferAccountId].paymentCategoryId
        IN  /\ r.status = OK
            /\ \A i \in 1..2 :
                  LET d == DeleteTransaction(r.db, "u1", r.created[i].id)
                  IN  /\ d.status = OK
                      /\ Assigned(d.db.budgetEntries, P, dto.date) =
                            Assigned(r.db.budgetEntries, P, dto.date)
                                + Abs(dto.amount)
                      /\ SameExcept(d.db.budgetEntries, r.db.budgetEntries,
                                    {<<P, dto.date>>})
                      /\ SameAssigned(d.db.budgetEntries, budgetEntries)

C27_DetailPatchFrame ==
    \A t \in transactions, patch \in DetailPatches :
        LET u == UpdateTransaction(DB, Owner(t), t.id, patch)
        IN  u.status = OK => SameAssigned(u.db.budgetEntries, budgetEntries)

----------------------------------------------------------------------------
(* Properties of card refunds and card spending in the budget view *)

\* C28: creating an uncategorised non-transfer inflow of r > 0 on a credit
\* card with a linked payment category raises the month's toBeBudgeted by
\* exactly r.
C28_CardRefundOnce ==
    \A dto \in ({PlainDto(a, m, x, None, None, None) : a \in {"cc", "cc2"}, m \in Months, x \in 1..MaxAssigned}) :
        LET r == CreateTransaction(DB, "u1", dto)
            before == GetBudgetView(DB, "u1", "b1", dto.date)
            after == GetBudgetView(r.db, "u1", "b1", dto.date)
        IN  /\ r.status = OK
            /\ after.toBeBudgeted = before.toBeBudgeted + dto.amount

\* C29: creating card spending (a non-transfer outflow with a spending
\* category on a card with a payment category) leaves the month's
\* totalAssigned and toBeBudgeted unchanged, whatever the spending category
\* held before: enough to cover it, part of it, or less than nothing.
C29_CardSpendTotals ==
    \A dto \in ({PlainDto(a, m, -x, None, None, "groc") : a \in {"cc", "cc2"}, m \in Months, x \in 1..MaxAssigned}) :
        LET r == CreateTransaction(DB, "u1", dto)
            before == GetBudgetView(DB, "u1", "b1", dto.date)
            after == GetBudgetView(r.db, "u1", "b1", dto.date)
        IN  /\ r.status = OK
            /\ after.totalAssigned = before.totalAssigned
            /\ after.toBeBudgeted = before.toBeBudgeted

----------------------------------------------------------------------------
(* Properties of payees *)

\* C30: after any sequence of createTransaction and updateTransaction
\* calls the payee of a transaction, when set, is a payee of the
\* transaction's budget; a payeeId naming a payee of another budget is
\* rejected by both requests; and a budget holds at most one payee of a
\* name.
C30_PayeeInBudget ==
    /\ \A t \in transactions :
          t.payeeId # None =>
              \E p \in payees : p.id = t.payeeId /\ p.budgetId = t.budgetId
    /\ \A p \in {x \in payees : x.budgetId # "b1"} :
          /\ CreateTransaction(DB, "u1", PlainDto("chk", 1, -1, None, p.id, "groc")).status # OK
          /\ \A t \in transactions :
                t.budgetId = "b1" =>
                    UpdateTransaction(DB, "u1", t.id, PatchOf("payeeId", p.id)).status # OK
    /\ \A p \in payees, q \in payees :
          (p.budgetId = q.budgetId /\ p.name = q.name) => p = q

====
